---- MODULE Spec2Model ----
(***************************************************************************)
(* Model of the mcbom recipe/tag loader (core/parser.py), the resolution   *)
(* engine (core/engine.py) and the Mermaid exporter (core/exporter.py).    *)
(*                                                                         *)
(* Encoding of the Python values:                                          *)
(*   - an item id "ns:name" is the sequence of its ':'-separated parts,    *)
(*     <<"ns", "name">>; an id without ':' is <<"name">>; <<>> stands for  *)
(*     an absent value (None / missing key).                               *)
(*   - a quantity is an exact rational <<num, den>> in lowest terms with   *)
(*     den > 0 (the engine's "real" arithmetic; binary rounding of floats  *)
(*     is not modelled).                                                   *)
(*   - a Counter / dict keyed by item id is a function whose DOMAIN is the *)
(*     key set (zero-valued keys are kept, as Counter.update keeps them).  *)
(*   - a recipe dict is a record with one field per JSON key the code      *)
(*     reads, plus has* flags for "key present with the expected type";    *)
(*     its json field tells whether the file or archive entry it stands    *)
(*     for parses as JSON at all (json.load / json.loads succeeds).        *)
(***************************************************************************)
EXTENDS Integers, Sequences, FiniteSets, TLC

VARIABLES
    recipes,    \* BomEngine.recipes: item id -> recipe dict (after alias injection)
    tags,       \* BomEngine.tags: tag id -> list of member ids
    memo,       \* BomEngine.memo: canonical item id -> per-unit Counter
    last,       \* the last engine call: request, memo at entry, returned value
    ncalls,     \* number of engine calls made on this engine
    diagram,    \* the last to_mermaid output (node and edge lines)
    decls,      \* the content root: loose files, jars and script blocks
    pc,         \* "root": nothing loaded; "loaded": load_recipes returned;
                \* "tagged": load_tags returned; "engine": a BomEngine is
                \* constructed; "failed": a loader raised; "canon": the
                \* canonicaliser is applied on its own
    loaded,     \* the recipes_data map (what load_recipes returned)
    probe       \* a helper applied on its own: the argument and the values returned

vars == <<recipes, tags, memo, last, ncalls, diagram, decls, pc, loaded, probe>>

-----------------------------------------------------------------------------
(* Bounds of the model *)

\* largest requested quantity
MaxQty == 2
\* largest number of engine calls made on one engine
MaxCalls == 2
\* largest number of ':'-separated parts of an id given to the canonicaliser
MaxParts == 3
MaxRows == 2

-----------------------------------------------------------------------------
(* Exact rational arithmetic *)

Abs(x) == IF x < 0 THEN -x ELSE x

RECURSIVE GCD(_, _)
GCD(a, b) == IF b = 0 THEN a ELSE GCD(b, a % b)

\* n/d in lowest terms, d # 0
Rat(n, d) ==
    LET g == GCD(Abs(n), Abs(d))
        s == IF d < 0 THEN -1 ELSE 1
    IN  <<(s * n) \div g, (s * d) \div g>>

RInt(n) == <<n, 1>>
RMul(a, b) == Rat(a[1] * b[1], a[2] * b[2])
RAdd(a, b) == Rat(a[1] * b[2] + b[1] * a[2], a[2] * b[2])
\* a / b, b # 0
RDiv(a, b) == Rat(a[1] * b[2], a[2] * b[1])
RIsZero(a) == a[1] = 0

-----------------------------------------------------------------------------
(* Counters *)

EmptyCounter == [k \in {} |-> RInt(0)]

\* a raw-material counter that forgets the quantity
CounterOfOne(item, q) == [k \in {item} |-> RInt(1)]

\* Counter({item_id: quantity})
CounterOf(item, q) == [k \in {item} |-> q]

\* a.update(b): counts of b are added to a, key by key
CounterUpdate(a, b) ==
    [k \in (DOMAIN a) \cup (DOMAIN b) |->
        IF k \in DOMAIN a
        THEN (IF k \in DOMAIN b THEN RAdd(a[k], b[k]) ELSE a[k])
        ELSE b[k]]

\* a scaling that returns the counter as it is
ScaleCounterUnscaled(counter, factor) == counter

\* BomEngine._scale_counter
_scale_counter(counter, factor) == [k \in DOMAIN counter |-> RMul(counter[k], factor)]

-----------------------------------------------------------------------------
(* Item ids and the namespace canonicaliser *)

NoId == <<>>

Id(ns, name) == <<ns, name>>

NS_ALIASES == [appliedenergistics2 |-> "ae2", ae2 |-> "ae2"]

\* an alias lookup that sends the canonical namespace back to its alias
AliasOfSwapped(ns) ==
    IF ns = "ae2" THEN "appliedenergistics2"
    ELSE IF ns = "appliedenergistics2" THEN "ae2"
    ELSE ns

\* NS_ALIASES.get(ns, ns)
AliasOf(ns) == IF ns \in DOMAIN NS_ALIASES THEN NS_ALIASES[ns] ELSE ns

\* a canonicaliser that forgets the alias table
CanonNoAlias(item_id) == item_id

\* BomEngine._canon: only the part before the first ':' is rewritten
_canon(item_id) ==
    IF Len(item_id) < 2 THEN item_id
    ELSE <<AliasOf(Head(item_id))>> \o Tail(item_id)

-----------------------------------------------------------------------------
(* Recipe dicts as the engine and the loader read them *)

\* an ingredient object: {'item': ..} / {'tag': ..} / {'items': [..]}, optional 'count'
ObjItem(id) == [item |-> id, tag |-> "", items |-> <<>>, hasCount |-> FALSE, count |-> 1]
ObjItemN(id, n) == [item |-> id, tag |-> "", items |-> <<>>, hasCount |-> TRUE, count |-> n]
ObjTag(t) == [item |-> NoId, tag |-> t, items |-> <<>>, hasCount |-> FALSE, count |-> 1]
ObjTagN(t, n) == [item |-> NoId, tag |-> t, items |-> <<>>, hasCount |-> TRUE, count |-> n]
ObjItems(ids) == [item |-> NoId, tag |-> "", items |-> ids, hasCount |-> FALSE, count |-> 1]

\* a key cell or ingredient-list entry: one object, or a list of alternatives
One(obj) == [kind |-> "dict", objs |-> <<obj>>]
Choice(objs) == [kind |-> "list", objs |-> objs]

\* the declared output under 'result' / 'output' / an element of 'results'
\* (kind "str": item is the string; kind "dict": item and id are the values of
\* the 'item' and 'id' keys, NoId when missing)
OutAbsent == [kind |-> "absent", item |-> NoId, id |-> NoId, hasCount |-> FALSE, count |-> 1]
OutStr(id) == [kind |-> "str", item |-> id, id |-> NoId, hasCount |-> FALSE, count |-> 1]
OutObj(id, n) == [kind |-> "dict", item |-> id, id |-> NoId, hasCount |-> TRUE, count |-> n]
OutObjId(id, n) == [kind |-> "dict", item |-> NoId, id |-> id, hasCount |-> TRUE, count |-> n]

NoKey == [c \in {} |-> One(ObjItem(NoId))]

BlankRecipe ==
    [json |-> TRUE, hasType |-> FALSE, type |-> <<>>,
     hasPattern |-> FALSE, pattern |-> <<>>,
     hasKey |-> FALSE, key |-> NoKey,
     ingKind |-> "absent", ingredients |-> <<>>, slots |-> NoKey,
     result |-> OutAbsent, output |-> OutAbsent, results |-> <<>>,
     placeholder |-> FALSE]

CraftingShaped == <<"minecraft", "crafting_shaped">>
CraftingShapeless == <<"minecraft", "crafting_shapeless">>

\* a recipe file or archive entry whose content is not JSON
Unreadable == [BlankRecipe EXCEPT !.json = FALSE]

\* {type, pattern, key, result}
Shaped(type, pattern, key, result) ==
    [BlankRecipe EXCEPT !.hasType = TRUE, !.type = type, !.hasPattern = TRUE,
                        !.pattern = pattern, !.hasKey = TRUE, !.key = key,
                        !.result = result]

\* {type, ingredients: [...], result}
Shapeless(type, ingredients, result) ==
    [BlankRecipe EXCEPT !.hasType = TRUE, !.type = type, !.ingKind = "list",
                        !.ingredients = ingredients, !.result = result]

\* {type, ingredients: {top, middle, bottom}, result}
Slotted(type, slots, result) ==
    [BlankRecipe EXCEPT !.hasType = TRUE, !.type = type, !.ingKind = "dict",
                        !.slots = slots, !.result = result]

\* a declaration with a type and a result but no ingredient shape the code knows
Opaque(type, result) ==
    [BlankRecipe EXCEPT !.hasType = TRUE, !.type = type, !.result = result]

\* recipe.get('type', '') or ''
TypeOrEmpty(recipe) == IF recipe.hasType THEN recipe.type ELSE <<>>

\* str(rtype).endswith(':inscriber')
EndsWithInscriber(type) == Len(type) >= 2 /\ type[Len(type)] = "inscriber"

\* rtype.startswith("minecraft:")
StartsWithMinecraft(type) == Len(type) >= 2 /\ type[1] = "minecraft"

\* BomEngine._output_count
_output_count(recipe) ==
    IF recipe.result.kind = "dict" /\ recipe.result.hasCount THEN recipe.result.count
    ELSE IF recipe.result.kind = "str" THEN 1
    ELSE IF recipe.output.kind = "dict" /\ recipe.output.hasCount THEN recipe.output.count
    ELSE 1


-----------------------------------------------------------------------------
(* Ingredient extraction: BomEngine._get_ingredients_from_recipe *)

\* tags.get(tag, [])
TagMembers(tagmap, tag) == IF tag \in DOMAIN tagmap THEN tagmap[tag] ELSE <<>>

\* a tag lookup that takes the last member instead of the first
PickItemLastMember(tagmap, obj) ==
    IF obj.item # NoId THEN obj.item
    ELSE IF obj.tag # "" THEN
        LET lst == TagMembers(tagmap, obj.tag)
        IN  IF lst # <<>> THEN lst[Len(lst)] ELSE NoId
    ELSE IF obj.items # <<>> THEN obj.items[1]
    ELSE NoId

\* _pick_item on a dict: the id it returns, NoId for None
_pick_item(tagmap, obj) ==
    IF obj.item # NoId THEN obj.item
    ELSE IF obj.tag # "" THEN
        LET lst == TagMembers(tagmap, obj.tag)
        IN  IF lst # <<>> THEN lst[1] ELSE NoId
    ELSE IF obj.items # <<>> THEN obj.items[1]
    ELSE NoId

\* choice = entry[0] if entry is a non-empty list, the entry itself if a dict;
\* the result is <<>> when no dict is chosen, <<obj>> otherwise
ChoiceOf(entry) ==
    IF entry.kind = "list"
    THEN (IF entry.objs # <<>> THEN <<entry.objs[1]>> ELSE <<>>)
    ELSE <<entry.objs[1]>>

\* the ingredient {'item', 'quantity'} an entry of a list or a slot yields, if any
ListIngredient(tagmap, entry) ==
    LET ch == ChoiceOf(entry)
    IN  IF ch = <<>> THEN <<>>
        ELSE LET item_id == _pick_item(tagmap, ch[1])
             IN  IF item_id = NoId THEN <<>>
                 ELSE <<[item |-> item_id,
                         quantity |-> IF ch[1].hasCount THEN ch[1].count ELSE 1]>>

RECURSIVE ListIngredients(_, _)
ListIngredients(tagmap, entries) ==
    IF entries = <<>> THEN <<>>
    ELSE ListIngredient(tagmap, Head(entries)) \o ListIngredients(tagmap, Tail(entries))

\* "".join(row.replace(" ", "") for row in pattern), as a sequence of symbols
RECURSIVE RowChars(_)
RowChars(row) ==
    IF row = <<>> THEN <<>>
    ELSE (IF Head(row) = " " THEN <<>> ELSE <<Head(row)>>) \o RowChars(Tail(row))

RECURSIVE PatternChars(_)
PatternChars(pattern) ==
    IF pattern = <<>> THEN <<>>
    ELSE RowChars(Head(pattern)) \o PatternChars(Tail(pattern))

\* Counter(chars): the distinct symbols in first-occurrence order ...
RECURSIVE FirstOccurrences(_, _)
FirstOccurrences(chars, seen) ==
    IF chars = <<>> THEN <<>>
    ELSE IF Head(chars) \in seen THEN FirstOccurrences(Tail(chars), seen)
    ELSE <<Head(chars)>> \o FirstOccurrences(Tail(chars), seen \cup {Head(chars)})

\* a count that ignores repetitions
OccurrencesOne(chars, ch) == 1

\* ... and the number of occurrences of each
Occurrences(chars, ch) == Cardinality({i \in 1..Len(chars) : chars[i] = ch})

\* the ingredient a pattern symbol yields, if any
SymbolIngredient(tagmap, key, chars, ch) ==
    IF ch \notin DOMAIN key THEN <<>>
    ELSE LET c == ChoiceOf(key[ch])
         IN  IF c = <<>> THEN <<>>
             ELSE LET item_id == _pick_item(tagmap, c[1])
                  IN  IF item_id = NoId THEN <<>>
                      ELSE <<[item |-> item_id, quantity |-> Occurrences(chars, ch)]>>

RECURSIVE SymbolIngredients(_, _, _, _)
SymbolIngredients(tagmap, key, chars, syms) ==
    IF syms = <<>> THEN <<>>
    ELSE SymbolIngredient(tagmap, key, chars, Head(syms))
         \o SymbolIngredients(tagmap, key, chars, Tail(syms))

SlotOrder == <<"top", "middle", "bottom">>

\* the slots present in the object, in top/middle/bottom order
RECURSIVE SlotEntries(_, _)
SlotEntries(slots, order) ==
    IF order = <<>> THEN <<>>
    ELSE (IF Head(order) \in DOMAIN slots THEN <<slots[Head(order)]>> ELSE <<>>)
         \o SlotEntries(slots, Tail(order))

\* BomEngine._get_ingredients_from_recipe: list of {'item', 'quantity'}
_get_ingredients_from_recipe(tagmap, recipe) ==
    IF recipe.ingKind = "dict" /\ EndsWithInscriber(TypeOrEmpty(recipe))
    THEN ListIngredients(tagmap, SlotEntries(recipe.slots, SlotOrder))
    ELSE IF recipe.hasPattern /\ recipe.hasKey
    THEN LET chars == PatternChars(recipe.pattern)
         IN  SymbolIngredients(tagmap, recipe.key, chars, FirstOccurrences(chars, {}))
    ELSE IF recipe.ingKind = "list"
    THEN ListIngredients(tagmap, recipe.ingredients)
    ELSE <<>>

-----------------------------------------------------------------------------
(* The engine: construction and the two recursive resolutions *)

\* BomEngine._apply_namespace_aliases.  NS_ALIASES has one non-canonical
\* namespace, so at most one key of the map canonicalises to a missing key.
_apply_namespace_aliases(recipes_data) ==
    LET canonKeys == {_canon(k) : k \in DOMAIN recipes_data}
    IN  [k \in (DOMAIN recipes_data) \cup canonKeys |->
            IF k \in DOMAIN recipes_data THEN recipes_data[k]
            ELSE recipes_data[CHOOSE a \in DOMAIN recipes_data : _canon(a) = k]]

SupportedCrafting == {CraftingShaped, CraftingShapeless}

\* What one call of calculate_raw_materials did, kept as bookkeeping of the
\* model: the canonical id and the quantity it was asked for, the visited
\* set it received, the keys of the memo when it was entered, how it ended
\* ("memo": answered from the memo, "cycle": the id was in visited, "leaf": no
\* recipe, "unusable": no ingredients and no crafting type, "stored": the
\* loop ran and the memo entry was written, "raised": ZeroDivisionError),
\* what it returned, and the calls it made, in order.
RawCall(item_id, quantity, visited, m, how, raw, sub) ==
    [item |-> item_id, quantity |-> quantity, visited |-> visited, memo |-> DOMAIN m,
     how |-> how, raw |-> raw, sub |-> sub]

\* a raised ZeroDivisionError leaves the memo as the completed sub-calls left it
RawError(m, call) == [err |-> TRUE, raw |-> EmptyCounter, memo |-> m, call |-> call]
RawOk(counter, m, call) == [err |-> FALSE, raw |-> counter, memo |-> m, call |-> call]

\* memo[item_id] = base_materials
MemoStore(m, item_id, base) ==
    [k \in (DOMAIN m) \cup {item_id} |-> IF k = item_id THEN base ELSE m[k]]

\* a lookup that never finds the entry
InMemoNever(m, item_id) == FALSE

\* line 102: item_id in self.memo
InMemo(m, item_id) == item_id \in DOMAIN m

RECURSIVE calculate_raw_materials(_, _, _, _, _)
RECURSIVE RawLoop(_, _, _, _, _, _, _)

RECURSIVE RawLoopPathMemoised(_, _, _, _, _, _, _)

\* the loop with a provisional (empty) memo entry for every item of the
\* current path that has none
RawLoopPathMemoised(eng, m, ings, mult, visited, acc, sub) ==
    IF ings = <<>> THEN [err |-> FALSE, raw |-> acc, memo |-> m, sub |-> sub]
    ELSE LET ingredient_id == _canon(Head(ings).item)
             ingredient_qty == RMul(RInt(Head(ings).quantity), mult)
             provisional == [k \in (DOMAIN m) \cup visited |->
                                IF k \in DOMAIN m THEN m[k] ELSE EmptyCounter]
             r == calculate_raw_materials(eng, provisional, ingredient_id,
                                          ingredient_qty, visited)
         IN  IF r.err
             THEN [err |-> TRUE, raw |-> EmptyCounter, memo |-> r.memo,
                   sub |-> Append(sub, r.call)]
             ELSE RawLoopPathMemoised(eng, r.memo, Tail(ings), mult, visited,
                                      CounterUpdate(acc, r.raw), Append(sub, r.call))

\* lines 134-139: the loop over the ingredients, the memo threaded through;
\* sub collects the calls made so far
RawLoop(eng, m, ings, mult, visited, acc, sub) ==
    IF ings = <<>> THEN [err |-> FALSE, raw |-> acc, memo |-> m, sub |-> sub]
    ELSE LET ingredient_id == _canon(Head(ings).item)
             ingredient_qty == RMul(RInt(Head(ings).quantity), mult)
             r == calculate_raw_materials(eng, m, ingredient_id, ingredient_qty, visited)
         IN  IF r.err
             THEN [err |-> TRUE, raw |-> EmptyCounter, memo |-> r.memo,
                   sub |-> Append(sub, r.call)]
             ELSE RawLoop(eng, r.memo, Tail(ings), mult, visited,
                          CounterUpdate(acc, r.raw), Append(sub, r.call))

\* BomEngine.calculate_raw_materials(item_id, quantity, visited) on an engine
\* eng = [recipes, tags] whose memo is m; visited is the caller's copy
calculate_raw_materials(eng, m, item, quantity, visited) ==
    LET item_id == _canon(item)
        Here(how, raw, sub) == RawCall(item_id, quantity, visited, m, how, raw, sub)
        own == CounterOf(item_id, quantity)
    IN  IF InMemo(m, item_id)
        THEN LET scaled == _scale_counter(m[item_id], quantity)
             IN  RawOk(scaled, m, Here("memo", scaled, <<>>))
        ELSE IF item_id \in visited THEN RawOk(own, m, Here("cycle", own, <<>>))
        ELSE IF item_id \notin DOMAIN eng.recipes THEN RawOk(own, m, Here("leaf", own, <<>>))
        ELSE LET recipe == eng.recipes[item_id]
                 recipe_output_count == _output_count(recipe)
                 ingredients == _get_ingredients_from_recipe(eng.tags, recipe)
             IN  IF recipe_output_count = 0
                 THEN RawError(m, Here("raised", EmptyCounter, <<>>))
                 ELSE IF ingredients = <<>> /\ TypeOrEmpty(recipe) \notin SupportedCrafting
                 THEN RawOk(own, m, Here("unusable", own, <<>>))
                 ELSE LET r == RawLoop(eng, m, ingredients,
                                       RDiv(quantity, RInt(recipe_output_count)),
                                       visited \cup {item_id}, EmptyCounter, <<>>)
                      IN  IF r.err \/ RIsZero(quantity)
                          THEN RawError(r.memo, Here("raised", EmptyCounter, r.sub))
                          ELSE RawOk(r.raw,
                                     MemoStore(r.memo, item_id,
                                               _scale_counter(r.raw, RDiv(RInt(1), quantity))),
                                     Here("stored", r.raw, r.sub))

\* recipe.get('type', 'unknown')
TypeOrUnknown(recipe) == IF recipe.hasType THEN recipe.type ELSE <<"unknown">>

\* lines 190-194: the ingredient list of the current step
RECURSIVE StepIngredients(_, _)
StepIngredients(ings, mult) ==
    IF ings = <<>> THEN <<>>
    ELSE <<[item |-> _canon(Head(ings).item),
            count |-> RMul(RInt(Head(ings).quantity), mult)]>>
         \o StepIngredients(Tail(ings), mult)

\* What one call of calculate_with_steps did, kept as bookkeeping of the
\* model: the canonical id and quantity, the visited set it received, how it
\* ended ("cycle", "leaf", "unusable": no ingredients, "step": a step was
\* appended and the loop ran), what it returned, and the calls it made.
StepCall(item_id, quantity, visited, how, raw, sub) ==
    [item |-> item_id, quantity |-> quantity, visited |-> visited,
     how |-> how, raw |-> raw, sub |-> sub]

StepsError == [err |-> TRUE, raw |-> EmptyCounter, steps |-> <<>>, call |-> <<>>]
StepsOk(counter, steps, call) ==
    [err |-> FALSE, raw |-> counter, steps |-> steps, call |-> call]

\* the step list built children-first
AssemblePostOrder(own, children) == children \o <<own>>

\* lines 195-208: the current step is appended first, the sub-steps extend the list
AssembleSteps(own, children) == <<own>> \o children

RECURSIVE calculate_with_steps(_, _, _, _, _)
RECURSIVE StepsLoop(_, _, _, _, _, _, _, _, _)
RECURSIVE StepsLoopSharedVisited(_, _, _, _, _, _, _, _, _)

\* the recursion over the ingredients with one visited set shared by the
\* siblings: what an earlier sibling's call added stays in the set
StepsLoopSharedVisited(eng, ings, i, mult, visited, pos, acc, steps, sub) ==
    IF i > Len(ings)
    THEN [err |-> FALSE, raw |-> acc, steps |-> steps, sub |-> sub]
    ELSE LET ing_id == _canon(ings[i].item)
             ing_qty_needed == RMul(RInt(ings[i].quantity), mult)
             r == calculate_with_steps(eng, ing_id, ing_qty_needed, visited,
                                       Append(pos, i))
         IN  IF r.err THEN [err |-> TRUE, raw |-> EmptyCounter, steps |-> <<>>, sub |-> <<>>]
             ELSE StepsLoopSharedVisited(eng, ings, i + 1, mult,
                                         visited \cup {ing_id}, pos,
                                         CounterUpdate(acc, r.raw), steps \o r.steps,
                                         Append(sub, r.call))

\* lines 203-208: the recursion over the ingredients, each call on its own
\* copy of visited.  pos is the position of the current call in the call tree
\* (the ingredient indices from the root); i is the index of the next
\* ingredient; sub collects the calls made so far.
StepsLoop(eng, ings, i, mult, visited, pos, acc, steps, sub) ==
    IF i > Len(ings)
    THEN [err |-> FALSE, raw |-> acc, steps |-> steps, sub |-> sub]
    ELSE LET ing_id == _canon(ings[i].item)
             ing_qty_needed == RMul(RInt(ings[i].quantity), mult)
             r == calculate_with_steps(eng, ing_id, ing_qty_needed, visited,
                                       Append(pos, i))
         IN  IF r.err THEN [err |-> TRUE, raw |-> EmptyCounter, steps |-> <<>>, sub |-> <<>>]
             ELSE StepsLoop(eng, ings, i + 1, mult, visited, pos,
                            CounterUpdate(acc, r.raw), steps \o r.steps,
                            Append(sub, r.call))

\* BomEngine.calculate_with_steps.  Each element of steps is [step, pos]: the
\* step dict the code appends and the call-tree position of the call that
\* appended it (pos is bookkeeping of the model, not part of the dict).
calculate_with_steps(eng, item, quantity, visited, pos) ==
    LET item_id == _canon(item)
        own_raw == CounterOf(item_id, quantity)
        Here(how, raw, sub) == StepCall(item_id, quantity, visited, how, raw, sub)
    IN  IF item_id \in visited THEN StepsOk(own_raw, <<>>, Here("cycle", own_raw, <<>>))
        ELSE IF item_id \notin DOMAIN eng.recipes
        THEN StepsOk(own_raw, <<>>, Here("leaf", own_raw, <<>>))
        ELSE LET recipe == eng.recipes[item_id]
                 recipe_output_count == _output_count(recipe)
                 ingredients == _get_ingredients_from_recipe(eng.tags, recipe)
             IN  IF recipe_output_count = 0 THEN StepsError
                 ELSE IF ingredients = <<>>
                 THEN StepsOk(own_raw, <<>>, Here("unusable", own_raw, <<>>))
                 ELSE LET mult == RDiv(quantity, RInt(recipe_output_count))
                          own == [step |-> [item |-> item_id,
                                            count |-> quantity,
                                            recipe_type |-> TypeOrUnknown(recipe),
                                            ingredients |-> StepIngredients(ingredients, mult)],
                                  pos |-> pos]
                          r == StepsLoop(eng, ingredients, 1, mult,
                                         visited \cup {item_id}, pos, EmptyCounter,
                                         <<>>, <<>>)
                      IN  IF r.err THEN StepsError
                          ELSE StepsOk(r.raw, AssembleSteps(own, r.steps),
                                       Here("step", r.raw, r.sub))

-----------------------------------------------------------------------------
(* analyze and the Mermaid exporter *)

\* The strings the model uses as parts of ids, in ascending code-point order.
\* No namespace of the model is a prefix of another, so comparing ids part by
\* part is Python's comparison of the "ns:name" strings.
StrOrder ==
    <<"#minecraft", "ae2", "appliedenergistics2", "birch_planks", "cobblestone",
      "controller", "diamond", "diamond_pickaxe", "engineering_processor",
      "fluix_block", "minecraft", "oak_log", "oak_planks", "silicon",
      "sky_stone_block", "stick", "stone_pickaxe", "unknown_item">>

StrRank(str) == CHOOSE i \in 1..Len(StrOrder) : StrOrder[i] = str

RECURSIVE IdLess(_, _)
IdLess(a, b) ==
    IF b = <<>> THEN FALSE
    ELSE IF a = <<>> THEN TRUE
    ELSE IF Head(a) = Head(b) THEN IdLess(Tail(a), Tail(b))
    ELSE StrRank(Head(a)) < StrRank(Head(b))

\* the keys in descending order
RECURSIVE SortedKeysDescending(_)
SortedKeysDescending(keys) ==
    IF keys = {} THEN <<>>
    ELSE LET hi == CHOOSE x \in keys : \A y \in keys \ {x} : IdLess(y, x)
         IN  <<hi>> \o SortedKeysDescending(keys \ {hi})

\* sorted(keys)
RECURSIVE SortedKeys(_)
SortedKeys(keys) ==
    IF keys = {} THEN <<>>
    ELSE LET lo == CHOOSE x \in keys : \A y \in keys \ {x} : IdLess(x, y)
         IN  <<lo>> \o SortedKeys(keys \ {lo})

\* [{"item": k, "count": v} for k, v in sorted(raw_counter.items())]
TotalRawMaterials(raw_counter) ==
    LET ks == SortedKeys(DOMAIN raw_counter)
    IN  [i \in 1..Len(ks) |-> [item |-> ks[i], count |-> raw_counter[ks[i]]]]

\* the step dicts of a calculate_with_steps result, without the positions
StepDicts(steps) == [i \in 1..Len(steps) |-> steps[i].step]

\* BomEngine.analyze
analyze(eng, item_id, quantity) ==
    LET r == calculate_with_steps(eng, item_id, quantity, {}, <<>>)
    IN  [err |-> r.err,
         target |-> item_id,
         quantity |-> quantity,
         total_raw_materials |-> IF r.err THEN <<>> ELSE TotalRawMaterials(r.raw),
         steps |-> StepDicts(r.steps),
         pos |-> [i \in 1..Len(r.steps) |-> r.steps[i].pos],
         raw |-> r.raw,
         call |-> r.call]

\* the items of the steps in encounter order: each step's product, then its ingredients
RECURSIVE StepItems(_)
StepItems(steps) ==
    IF steps = <<>> THEN <<>>
    ELSE <<Head(steps).item>>
         \o [i \in 1..Len(Head(steps).ingredients) |-> Head(steps).ingredients[i].item]
         \o StepItems(Tail(steps))

\* an ensure_item that appends without looking
EnsureItemsNoDedup(seq, seen) == seq

\* ensure_item over a sequence: the list of distinct items, first encounter first
RECURSIVE EnsureItems(_, _)
EnsureItems(seq, seen) ==
    IF seq = <<>> THEN <<>>
    ELSE IF Head(seq) \in seen THEN EnsureItems(Tail(seq), seen)
    ELSE <<Head(seq)>> \o EnsureItems(Tail(seq), seen \cup {Head(seq)})

\* id_map[it]: the i of "n<i>", 1-based
NodeId(items, it) == CHOOSE i \in 1..Len(items) : items[i] = it

\* fmt_qty on a float: the number the rendered text denotes.  A quantity of the
\* model has a denominator far below 10^9, so it is within 1e-9 of an integer
\* only when it is one; otherwise "%.4f" rounds it to 4 decimals, a tie to the
\* even neighbour (the quantities of the model are dyadic, hence exact floats).
fmt_qty(v) ==
    IF v[2] = 1 THEN v
    ELSE LET x == 10000 * v[1]
             lo == x \div v[2]
             rem == x - lo * v[2]
             m == IF 2 * rem > v[2] THEN lo + 1
                  ELSE IF 2 * rem < v[2] THEN lo
                  ELSE IF lo % 2 = 0 THEN lo ELSE lo + 1
         IN  Rat(m, 10000)

\* the edge lines of the steps, step by step, ingredient by ingredient
RECURSIVE EdgeLines(_, _)
EdgeLines(items, steps) ==
    IF steps = <<>> THEN <<>>
    ELSE [i \in 1..Len(Head(steps).ingredients) |->
             [from |-> NodeId(items, Head(steps).ingredients[i].item),
              qty |-> fmt_qty(Head(steps).ingredients[i].count),
              to |-> NodeId(items, Head(steps).item)]]
         \o EdgeLines(items, Tail(steps))

\* to_mermaid: the node lines  n<i>["<item>"]  and the edge lines
\* n<from> -- x<qty> --> n<to>, in output order (ids of the model hold no '"',
\* so esc_label leaves them as they are)
to_mermaid(analysis) ==
    LET items == EnsureItems(StepItems(analysis.steps), {})
    IN  [nodes |-> [i \in 1..Len(items) |-> [id |-> i, label |-> items[i]]],
         edges |-> EdgeLines(items, analysis.steps)]

-----------------------------------------------------------------------------
(* The recipe loader: parser.load_recipes *)

\* res.get('item') or res.get('id')
ItemOrId(out) == IF out.item # NoId THEN out.item ELSE out.id

\* load_recipes._extract_result_item: the output id, NoId for None
_extract_result_item(data) ==
    IF data.result.kind = "str" THEN data.result.item
    ELSE IF data.result.kind = "dict" THEN ItemOrId(data.result)
    ELSE IF data.output.kind = "str" THEN data.output.item
    ELSE IF data.output.kind = "dict" THEN ItemOrId(data.output)
    ELSE IF data.results # <<>> /\ data.results[1].kind = "str" THEN data.results[1].item
    ELSE IF data.results # <<>> /\ data.results[1].kind = "dict" THEN ItemOrId(data.results[1])
    ELSE NoId

\* load_recipes._score_tuple: (parseable, tprio, source_rank)
_score_tuple(data, source_rank) ==
    LET rtype == TypeOrEmpty(data)
        has_shaped == data.hasPattern /\ data.hasKey
        has_shapeless == data.ingKind = "list"
        has_inscriber == /\ EndsWithInscriber(rtype)
                         /\ data.ingKind = "dict"
                         /\ "middle" \in DOMAIN data.slots
        parseable == IF has_shaped \/ has_shapeless \/ has_inscriber THEN 1 ELSE 0
        tprio == IF parseable = 1 /\ rtype \in SupportedCrafting THEN 2
                 ELSE IF StartsWithMinecraft(rtype) THEN 1
                 ELSE 0
    IN  <<parseable, tprio, source_rank>>

\* score > prev[0] on tuples
ScoreGreater(a, b) ==
    \/ a[1] > b[1]
    \/ a[1] = b[1] /\ a[2] > b[2]
    \/ a[1] = b[1] /\ a[2] = b[2] /\ a[3] > b[3]

NoBest == [x \in {} |-> [score |-> <<0, 0, 0>>, data |-> BlankRecipe]]

\* a _consider that lets an equal score replace the candidate kept so far
ConsiderLastWins(best, out_item, data, source_rank) ==
    LET score == _score_tuple(data, source_rank)
    IN  IF out_item \notin DOMAIN best \/ ~ScoreGreater(best[out_item].score, score)
        THEN [x \in (DOMAIN best) \cup {out_item} |->
                 IF x = out_item THEN [score |-> score, data |-> data] ELSE best[x]]
        ELSE best

\* load_recipes._consider
_consider(best, out_item, data, source_rank) ==
    LET score == _score_tuple(data, source_rank)
    IN  IF out_item \notin DOMAIN best \/ ScoreGreater(score, best[out_item].score)
        THEN [x \in (DOMAIN best) \cup {out_item} |->
                 IF x = out_item THEN [score |-> score, data |-> data] ELSE best[x]]
        ELSE best

\* lines 129-134 and 144-161: the declarations of one source, in order
RECURSIVE ConsiderAll(_, _, _)
ConsiderAll(best, datas, source_rank) ==
    IF datas = <<>> THEN best
    ELSE LET out_item == _extract_result_item(Head(datas))
         IN  ConsiderAll(IF out_item # NoId
                         THEN _consider(best, out_item, Head(datas), source_rank)
                         ELSE best,
                         Tail(datas), source_rank)

\* lines 130-131: json.load on a loose file that is not JSON raises, and
\* nothing around the loop catches it
LooseRaises(files) == \E i \in 1..Len(files) : ~files[i].json

\* lines 153-164: an archive entry json.loads cannot parse is passed over
RECURSIVE Parsed(_)
Parsed(entries) ==
    IF entries = <<>> THEN <<>>
    ELSE (IF Head(entries).json THEN <<Head(entries)>> ELSE <<>>) \o Parsed(Tail(entries))

\* lines 141-166: the jars in the order mods_dir.glob('*.jar') lists them
RECURSIVE ConsiderJars(_, _, _)
ConsiderJars(best, jars, jar_files) ==
    IF jar_files = <<>> THEN best
    ELSE ConsiderJars(ConsiderAll(best, Parsed(jars[Head(jar_files)]), 0), jars,
                      Tail(jar_files))

\* lines 239-247: of the event.custom blocks only the ':inscriber' ones count
RECURSIVE InscriberBlocks(_)
InscriberBlocks(blocks) ==
    IF blocks = <<>> THEN <<>>
    ELSE (IF EndsWithInscriber(TypeOrEmpty(Head(blocks))) THEN <<Head(blocks)>> ELSE <<>>)
         \o InscriberBlocks(Tail(blocks))

DiamondPickaxe == Id("minecraft", "diamond_pickaxe")

FallbackStick ==
    Shaped(<<"minecraft", "crafting_shaped">>, << <<"X">>, <<"X">> >>,
           [c \in {"X"} |-> One(ObjItem(Id("minecraft", "oak_planks")))],
           OutObj(Id("minecraft", "stick"), 4))
FallbackPlanks ==
    Shapeless(<<"minecraft", "crafting_shapeless">>,
              <<One(ObjItem(Id("minecraft", "oak_log")))>>,
              OutObj(Id("minecraft", "oak_planks"), 4))
FallbackDiamondPickaxe ==
    Shaped(<<"minecraft", "crafting_shaped">>,
           << <<"X", "X", "X">>, <<" ", "Y", " ">>, <<" ", "Y", " ">> >>,
           [c \in {"X", "Y"} |-> IF c = "X" THEN One(ObjItem(Id("minecraft", "diamond")))
                                 ELSE One(ObjItem(Id("minecraft", "stick")))],
           OutObj(DiamondPickaxe, 1))
FallbackController ==
    [Shaped(<<"minecraft", "crafting_shaped">>,
            << <<"X", "A", "X">>, <<"A", "S", "A">>, <<"X", "A", "X">> >>,
            [c \in {"X", "A", "S"} |->
                IF c = "X" THEN One(ObjItem(Id("ae2", "fluix_block")))
                ELSE IF c = "A" THEN One(ObjItem(Id("ae2", "engineering_processor")))
                ELSE One(ObjItem(Id("ae2", "sky_stone_block")))],
            OutObj(Id("ae2", "controller"), 1))
        EXCEPT !.placeholder = TRUE]

\* load_recipes._has_parseable
_has_parseable(rmap, item_id) ==
    item_id \in DOMAIN rmap /\ TypeOrEmpty(rmap[item_id]) \in SupportedCrafting

\* recipes[item_id] = recipe
Put(rmap, item_id, recipe) ==
    [x \in (DOMAIN rmap) \cup {item_id} |-> IF x = item_id THEN recipe ELSE rmap[x]]

\* lines 251-303: the fallbacks, one after the other
InjectFallbacks(r0) ==
    LET r1 == IF ~_has_parseable(r0, Id("minecraft", "stick"))
              THEN Put(r0, Id("minecraft", "stick"), FallbackStick) ELSE r0
        r2 == IF ~_has_parseable(r1, Id("minecraft", "oak_planks"))
              THEN Put(r1, Id("minecraft", "oak_planks"), FallbackPlanks) ELSE r1
        r3 == IF ~_has_parseable(r2, DiamondPickaxe)
              THEN Put(r2, DiamondPickaxe, FallbackDiamondPickaxe) ELSE r2
    IN  IF Id("ae2", "controller") \notin DOMAIN r3
           /\ Id("appliedenergistics2", "controller") \notin DOMAIN r3
        THEN Put(r3, Id("ae2", "controller"), FallbackController) ELSE r3

\* parser.load_recipes on a content root: root.loose are the loose recipe
\* files in sorted path order, root.jars maps each jar of mods/ to its recipe
\* entries in namelist order, root.scripts are the event.custom blocks of the
\* server scripts in sorted path order; jar_files is the order in which
\* glob('*.jar') lists the jars, which the file system decides.  This is the
\* map the call returns; when LooseRaises(root.loose) the call raises instead.
load_recipes(root, jar_files) ==
    LET b1 == ConsiderAll(NoBest, root.loose, 1)
        b2 == ConsiderJars(b1, root.jars, jar_files)
        b3 == ConsiderAll(b2, InscriberBlocks(root.scripts), 1)
    IN  InjectFallbacks([item \in DOMAIN b3 |-> b3[item].data])

-----------------------------------------------------------------------------
(* The tag loader: parser.load_tags *)

\* tags = {}
NoTags == [t \in {} |-> <<>>]

\* a tag file or archive entry: the tag id its path spells, whether its
\* content parses as JSON, and its 'values' list when it has one
TagFile(tag, values) == [json |-> TRUE, tag |-> tag, hasValues |-> TRUE, values |-> values]
TagFileNoValues(tag) == [json |-> TRUE, tag |-> tag, hasValues |-> FALSE, values |-> <<>>]
UnreadableTagFile(tag) == [json |-> FALSE, tag |-> tag, hasValues |-> FALSE, values |-> <<>>]

\* data.get('values', [])
ValuesOf(data) == IF data.hasValues THEN data.values ELSE <<>>

\* tags[full_tag_name] = values
PutTag(tagmap, tag, values) ==
    [t \in (DOMAIN tagmap) \cup {tag} |-> IF t = tag THEN values ELSE tagmap[t]]

\* lines 342-351: the on-disk tag files in sorted path order, each one
\* assigned to its tag id
RECURSIVE TagsFromFiles(_, _)
TagsFromFiles(tagmap, files) ==
    IF files = <<>> THEN tagmap
    ELSE TagsFromFiles(PutTag(tagmap, Head(files).tag, ValuesOf(Head(files))), Tail(files))

\* an archive loop that assigns every entry to its tag id
RECURSIVE TagsFromEntriesOverwriting(_, _)
TagsFromEntriesOverwriting(tagmap, entries) ==
    IF entries = <<>> THEN tagmap
    ELSE TagsFromEntriesOverwriting(
             IF Head(entries).json
             THEN PutTag(tagmap, Head(entries).tag, ValuesOf(Head(entries)))
             ELSE tagmap,
             Tail(entries))

\* lines 361-381: the tag entries of one archive in namelist order; an entry
\* that does not parse is passed over, a tag id already present is kept
RECURSIVE TagsFromEntries(_, _)
TagsFromEntries(tagmap, entries) ==
    IF entries = <<>> THEN tagmap
    ELSE TagsFromEntries(
             IF Head(entries).json /\ Head(entries).tag \notin DOMAIN tagmap
             THEN PutTag(tagmap, Head(entries).tag, ValuesOf(Head(entries)))
             ELSE tagmap,
             Tail(entries))

\* lines 354-383: the archives in the order mods_dir.glob('*.jar') lists them
RECURSIVE TagsFromJars(_, _, _)
TagsFromJars(tagmap, jartags, jar_files) ==
    IF jar_files = <<>> THEN tagmap
    ELSE TagsFromJars(TagsFromEntries(tagmap, jartags[Head(jar_files)]), jartags,
                      Tail(jar_files))

\* parser.load_tags on a content root: root.tagfiles are the on-disk tag
\* files in sorted path order, root.jartags maps each jar of mods/ to its tag
\* entries in namelist order.  This is the map the call returns; when
\* LooseRaises(root.tagfiles) the call raises instead (lines 343-344).
load_tags(root, jar_files) ==
    TagsFromJars(TagsFromFiles(NoTags, root.tagfiles), root.jartags, jar_files)

-----------------------------------------------------------------------------
(* The items, recipes and tags the model draws its registries from *)

Stick == Id("minecraft", "stick")
Planks == Id("minecraft", "oak_planks")
Birch == Id("minecraft", "birch_planks")
Log == Id("minecraft", "oak_log")
Cobble == Id("minecraft", "cobblestone")
Pickaxe == Id("minecraft", "stone_pickaxe")
Ctl == Id("ae2", "controller")
AltCtl == Id("appliedenergistics2", "controller")
Fluix == Id("ae2", "fluix_block")
AltFluix == Id("appliedenergistics2", "fluix_block")
Silicon == Id("ae2", "silicon")
Unknown == Id("minecraft", "unknown_item")
Diamond == Id("minecraft", "diamond")
LogsTagRef == Id("#minecraft", "logs")

PlanksTag == "minecraft:planks"
LogsTag == "minecraft:logs"

\* a recipes_data map with one entry, and the union of two maps with disjoint keys
Entry(k, recipe) == [x \in {k} |-> recipe]
NoEntries == [x \in {} |-> BlankRecipe]
Join(a, b) == [x \in (DOMAIN a) \cup (DOMAIN b) |-> IF x \in DOMAIN a THEN a[x] ELSE b[x]]

StickFromPlanks ==
    Shaped(CraftingShaped, << <<"X">>, <<"X">> >>,
           [c \in {"X"} |-> One(ObjItem(Planks))], OutObj(Stick, 4))
StickFromTag ==
    Shaped(CraftingShaped, << <<"X">>, <<"X">> >>,
           [c \in {"X"} |-> One(ObjTag(PlanksTag))], OutObj(Stick, 4))
PlanksFromLog ==
    Shapeless(CraftingShapeless, <<One(ObjItem(Log))>>, OutObj(Planks, 4))
PlanksFromLogAndStick ==
    Shapeless(CraftingShapeless, <<One(ObjItem(Log)), One(ObjItem(Stick))>>, OutObj(Planks, 2))
LogFromStick ==
    Shapeless(CraftingShapeless, <<One(ObjItemN(Stick, 2))>>, OutStr(Log))
LogFromPlanks ==
    Shapeless(CraftingShapeless, <<One(ObjItem(Planks))>>, OutStr(Log))
PickaxeRecipe ==
    Shaped(CraftingShaped, << <<"X", "X", "X">>, <<" ", "Y", " ">>, <<" ", "Y", " ">> >>,
           [c \in {"X", "Y"} |-> IF c = "X" THEN One(ObjItem(Cobble)) ELSE One(ObjItem(Stick))],
           OutObj(Pickaxe, 1))
PickaxeOfPlanks ==
    Shaped(CraftingShaped, << <<"X", "X", "X">>, <<" ", "Y", " ">>, <<" ", "Y", " ">> >>,
           [c \in {"X", "Y"} |-> IF c = "X" THEN One(ObjItem(Planks)) ELSE One(ObjItem(Stick))],
           OutObj(Pickaxe, 1))
CtlFromAltFluix ==
    Shapeless(CraftingShapeless, <<One(ObjItemN(AltFluix, 4))>>, OutObj(AltCtl, 1))
CtlFromFluix ==
    Shapeless(CraftingShapeless, <<One(ObjItemN(Fluix, 2)), One(ObjTagN(PlanksTag, 3))>>,
              OutObj(Ctl, 1))
FluixInscribed ==
    Slotted(<<"ae2", "inscriber">>,
            [p \in {"middle", "bottom"} |->
                IF p = "middle" THEN Choice(<<ObjItem(Silicon), ObjItem(Cobble)>>)
                ELSE One(ObjItemN(AltCtl, 2))],
            OutObj(AltFluix, 2))

\* a declaration whose result object says "count": 0
DiamondOfNothing ==
    Shapeless(CraftingShapeless, <<One(ObjItem(Cobble))>>, OutObj(Diamond, 0))

StickChoices == {NoEntries, Entry(Stick, StickFromPlanks), Entry(Stick, StickFromTag)}
PlanksChoices == {NoEntries, Entry(Planks, PlanksFromLog), Entry(Planks, PlanksFromLogAndStick)}
LogChoices == {NoEntries, Entry(Log, LogFromStick), Entry(Log, LogFromPlanks)}
PickaxeChoices == {Entry(Pickaxe, PickaxeRecipe), Entry(Pickaxe, PickaxeOfPlanks)}
CtlChoices ==
    {NoEntries, Entry(AltCtl, CtlFromAltFluix), Entry(Ctl, CtlFromFluix),
     Join(Entry(AltCtl, CtlFromAltFluix), Entry(Ctl, CtlFromFluix))}
FluixChoices == {NoEntries, Entry(AltFluix, FluixInscribed)}
DiamondChoices == {NoEntries, Entry(Diamond, DiamondOfNothing)}

\* the recipes_data maps an engine of the model is constructed with
VanillaRegistries ==
    {Join(Join(s, p), Join(l, k)) :
        s \in StickChoices, p \in PlanksChoices, l \in LogChoices, k \in PickaxeChoices}
ModRegistries == {Join(Join(c, f), d) : c \in CtlChoices, f \in FluixChoices, d \in DiamondChoices}

TagChoices ==
    {NoTags,
     [t \in {PlanksTag} |-> <<Planks, Birch>>],
     [t \in {PlanksTag} |-> <<>>],
     [t \in {PlanksTag} |-> <<LogsTagRef, Planks>>]}

\* the ids an engine of the model is asked about
Targets == {Stick, Planks, Log, Pickaxe, Cobble, Ctl, AltCtl, AltFluix, Unknown, Diamond}

\* the quantities it is asked for
Quantities == {RInt(n) : n \in 0..MaxQty}

-----------------------------------------------------------------------------
(* The engine as a state machine *)

Engine == [recipes |-> recipes, tags |-> tags]

NoCall ==
    [op |-> "none", item |-> NoId, quantity |-> RInt(0), memoBefore |-> <<>>,
     err |-> FALSE, raw |-> EmptyCounter, total |-> <<>>, steps |-> <<>>, pos |-> <<>>,
     call |-> <<>>]

NoDiagram == [made |-> FALSE, nodes |-> <<>>, edges |-> <<>>]

\* no helper is applied on its own
NoProbe == [arg |-> <<>>, out |-> <<>>]

\* no content root is involved when an engine is constructed on given maps
NoRoot ==
    [loose |-> <<>>, jars |-> [j \in {} |-> <<>>], scripts |-> <<>>,
     tagfiles |-> <<>>, jartags |-> [j \in {} |-> <<>>]]

\* engine = BomEngine(recipes_data, tags_data)
Init ==
    /\ \E recipes_data \in VanillaRegistries \cup ModRegistries :
          /\ loaded = recipes_data
          /\ recipes = _apply_namespace_aliases(recipes_data)
    /\ tags \in TagChoices
    /\ (tags # NoTags => \E k \in DOMAIN recipes : recipes[k] \in {StickFromTag, CtlFromFluix})
    /\ memo = <<>>
    /\ last = NoCall
    /\ ncalls = 0
    /\ diagram = NoDiagram
    /\ decls = NoRoot
    /\ pc = "engine"
    /\ probe = NoProbe

\* engine.calculate_raw_materials(item_id, quantity)
CalculateRawMaterials(item_id, quantity) ==
    /\ pc = "engine"
    /\ ncalls < MaxCalls
    /\ LET r == calculate_raw_materials(Engine, memo, item_id, quantity, {})
       IN  /\ memo' = r.memo
           /\ last' = [op |-> "raw", item |-> item_id, quantity |-> quantity,
                       memoBefore |-> memo, err |-> r.err, raw |-> r.raw,
                       total |-> <<>>, steps |-> <<>>, pos |-> <<>>, call |-> r.call]
    /\ ncalls' = ncalls + 1
    /\ diagram' = NoDiagram
    /\ UNCHANGED <<recipes, tags, decls, pc, loaded, probe>>

\* engine.analyze(item_id, quantity)
Analyze(item_id, quantity) ==
    /\ pc = "engine"
    /\ ncalls < MaxCalls
    /\ LET a == analyze(Engine, item_id, quantity)
       IN  last' = [op |-> "analyze", item |-> a.target, quantity |-> a.quantity,
                    memoBefore |-> memo, err |-> a.err, raw |-> a.raw,
                    total |-> a.total_raw_materials, steps |-> a.steps, pos |-> a.pos,
                    call |-> a.call]
    /\ ncalls' = ncalls + 1
    /\ diagram' = NoDiagram
    /\ UNCHANGED <<recipes, tags, memo, decls, pc, loaded, probe>>

\* to_mermaid(analysis) on the analysis just returned
ToMermaid ==
    /\ pc = "engine"
    /\ last.op = "analyze"
    /\ ~last.err
    /\ ~diagram.made
    /\ LET d == to_mermaid(last)
       IN  diagram' = [made |-> TRUE, nodes |-> d.nodes, edges |-> d.edges]
    /\ UNCHANGED <<recipes, tags, memo, last, ncalls, decls, pc, loaded, probe>>

Next ==
    \/ \E item_id \in Targets, quantity \in Quantities : CalculateRawMaterials(item_id, quantity)
    \/ \E item_id \in Targets, quantity \in Quantities : Analyze(item_id, quantity)
    \/ ToMermaid

Spec == Init /\ [][Next]_vars

-----------------------------------------------------------------------------
(* The loader as a state machine: load_recipes, then BomEngine(...) *)

CtlOpaque == Opaque(<<"ae2", "charger">>, OutObj(Ctl, 1))
StickSmelted == Opaque(<<"minecraft", "smelting">>, OutStr(Stick))
FluixCrushed ==
    [Opaque(<<"create", "crushing">>, OutAbsent) EXCEPT !.results = <<OutObjId(Fluix, 2)>>]
StickCut ==
    Shapeless(<<"farmersdelight", "cutting">>, <<One(ObjItem(Planks))>>, OutObj(Stick, 2))
ScriptedCrafting ==
    Shapeless(CraftingShapeless, <<One(ObjItem(Cobble))>>, OutObj(Planks, 1))

\* the loose recipe files of a content root, in sorted path order
LooseChoices ==
    {<<>>, <<StickSmelted>>, <<CtlOpaque, StickFromPlanks>>, <<CtlFromAltFluix>>,
     <<Unreadable, StickFromPlanks>>, <<StickCut>>}

\* the recipe entries of one jar, in namelist order
JarChoices ==
    {<<>>, <<StickFromPlanks>>, <<StickFromTag, CtlFromFluix>>,
     <<CtlFromAltFluix, Unreadable, FluixCrushed>>}

\* the event.custom blocks of the server scripts
ScriptChoices == {<<>>, <<FluixInscribed>>, <<ScriptedCrafting>>}

JarNames == {"a.jar", "b.jar"}

\* the orders in which glob('*.jar') may list the jars
JarOrders == {o \in [1..Cardinality(JarNames) -> JarNames] : \A i, j \in DOMAIN o : o[i] = o[j] => i = j}

\* the on-disk tag files of a content root, in sorted path order (the same
\* tag id can be spelled by files of several packs)
TagFileChoices ==
    {<<>>,
     <<TagFile(PlanksTag, <<Planks, Birch>>)>>,
     <<TagFile(PlanksTag, <<Planks>>), TagFile(PlanksTag, <<Birch>>)>>,
     <<TagFile(LogsTag, <<Log>>), UnreadableTagFile(PlanksTag)>>}

\* the tag entries of one jar, in namelist order
JarTagChoices ==
    {<<>>,
     <<TagFile(PlanksTag, <<Birch, Planks>>)>>,
     <<UnreadableTagFile(PlanksTag), TagFileNoValues(LogsTag), TagFile(PlanksTag, <<Planks>>),
       TagFile(PlanksTag, <<LogsTagRef>>)>>}

LoaderInit ==
    /\ \E l \in LooseChoices, s \in ScriptChoices, j \in [JarNames -> JarChoices],
          tf \in TagFileChoices, jt \in [JarNames -> JarTagChoices] :
          decls = [loose |-> l, jars |-> j, scripts |-> s, tagfiles |-> tf, jartags |-> jt]
    /\ pc = "root"
    /\ loaded = NoEntries
    /\ recipes = NoEntries
    /\ tags = NoTags
    /\ memo = <<>>
    /\ last = NoCall
    /\ ncalls = 0
    /\ diagram = NoDiagram
    /\ probe = NoProbe

\* recipes = load_recipes(base_path); jar_files is the order in which
\* glob('*.jar') lists the jars during this call
LoadRecipes(jar_files) ==
    /\ pc = "root"
    /\ IF LooseRaises(decls.loose)
       THEN pc' = "failed" /\ UNCHANGED loaded
       ELSE pc' = "loaded" /\ loaded' = load_recipes(decls, jar_files)
    /\ UNCHANGED <<recipes, tags, memo, last, ncalls, diagram, decls, probe>>

\* tags = load_tags(base_path)
LoadTags(jar_files) ==
    /\ pc = "loaded"
    /\ IF LooseRaises(decls.tagfiles)
       THEN pc' = "failed" /\ UNCHANGED tags
       ELSE pc' = "tagged" /\ tags' = load_tags(decls, jar_files)
    /\ UNCHANGED <<recipes, memo, last, ncalls, diagram, decls, loaded, probe>>

\* engine = BomEngine(recipes, tags)
BuildEngine ==
    /\ pc = "tagged"
    /\ recipes' = _apply_namespace_aliases(loaded)
    /\ memo' = <<>>
    /\ pc' = "engine"
    /\ UNCHANGED <<tags, last, ncalls, diagram, decls, loaded, probe>>

LoaderNext ==
    \/ \E jar_files \in JarOrders : LoadRecipes(jar_files)
    \/ \E jar_files \in JarOrders : LoadTags(jar_files)
    \/ BuildEngine

LoaderSpec == LoaderInit /\ [][LoaderNext]_vars

-----------------------------------------------------------------------------
(* The canonicaliser on its own: BomEngine._canon applied to an id, then to
   the id it returned *)

CanonParts == {"appliedenergistics2", "ae2", "minecraft", "controller"}

\* the ids given to _canon: None (no part), a string without ':' (one part),
\* "ns:name" and ids with further ':' in the name
CanonInputs == UNION {[1..n -> CanonParts] : n \in 0..MaxParts}

CanonInit ==
    /\ probe \in [arg : CanonInputs, out : {<<>>}]
    /\ pc = "canon"
    /\ loaded = NoEntries
    /\ recipes = NoEntries
    /\ tags = NoTags
    /\ memo = <<>>
    /\ last = NoCall
    /\ ncalls = 0
    /\ diagram = NoDiagram
    /\ decls = NoRoot

\* self._canon(item_id), on the argument first and then on the value returned
Canon ==
    /\ pc = "canon"
    /\ Len(probe.out) < 2
    /\ probe' = [probe EXCEPT !.out =
                    Append(@, _canon(IF @ = <<>> THEN probe.arg ELSE @[Len(@)]))]
    /\ UNCHANGED <<recipes, tags, memo, last, ncalls, diagram, decls, pc, loaded>>

CanonNext == Canon

CanonSpec == CanonInit /\ [][CanonNext]_vars

-----------------------------------------------------------------------------
(* _get_ingredients_from_recipe on grid-shaped recipes, as a function of its
   input *)

\* the characters of a pattern row: two symbols and the space
GridSymbols == {"X", "Y", " "}

\* a row is a string of one or two characters
GridRows == [1..1 -> GridSymbols] \cup [1..2 -> GridSymbols]

\* 'pattern': up to MaxRows rows
GridPatterns == UNION {[1..n -> GridRows] : n \in 0..MaxRows}

\* a key cell: an item object, a list of alternatives, a tag object, an empty list
GridCells ==
    {One(ObjItem(Planks)), Choice(<<ObjItem(Stick), ObjItem(Cobble)>>),
     One(ObjTag(PlanksTag)), Choice(<<>>)}

\* 'key': any of "X" and "Y" mapped to a cell, and possibly "Z", a symbol
\* that no pattern uses
GridKeys ==
    UNION {[D -> GridCells \cup {One(ObjItem(Cobble))}] : D \in SUBSET {"X", "Y", "Z"}}

GridTags == {NoTags, [t \in {PlanksTag} |-> <<Birch, Planks>>]}

GridInit ==
    /\ \E pattern \in GridPatterns, key \in GridKeys :
          /\ "Z" \in DOMAIN key => key["Z"] = One(ObjItem(Cobble))
          /\ \A c \in DOMAIN key \ {"Z"} : key[c] \in GridCells
          /\ probe = [arg |-> Shaped(CraftingShaped, pattern, key, OutObj(Pickaxe, 1)),
                      out |-> <<>>]
    /\ tags \in GridTags
    /\ pc = "grid"
    /\ loaded = NoEntries
    /\ recipes = NoEntries
    /\ memo = <<>>
    /\ last = NoCall
    /\ ncalls = 0
    /\ diagram = NoDiagram
    /\ decls = NoRoot

\* self._get_ingredients_from_recipe(recipe); out holds the returned list
GetIngredients ==
    /\ pc = "grid"
    /\ probe.out = <<>>
    /\ probe' = [probe EXCEPT !.out = <<_get_ingredients_from_recipe(tags, probe.arg)>>]
    /\ UNCHANGED <<recipes, tags, memo, last, ncalls, diagram, decls, pc, loaded>>

GridNext == GetIngredients

GridSpec == GridInit /\ [][GridNext]_vars

-----------------------------------------------------------------------------
(* What the claims speak about *)

Range(seq) == {seq[i] : i \in 1..Len(seq)}

\* the canonical ids the recipe of a requires, as the engine extracts them
Requires(a) ==
    IF a \in DOMAIN recipes
    THEN {_canon(ing.item) : ing \in Range(_get_ingredients_from_recipe(tags, recipes[a]))}
    ELSE {}

RECURSIVE Closure(_)
Closure(S) ==
    LET T == S \cup UNION {Requires(a) : a \in S}
    IN  IF T = S THEN S ELSE Closure(T)

\* item a's recipe directly or transitively requires a
OnCycle(a) == a \in Closure(Requires(a))

Acyclic == \A a \in DOMAIN recipes : ~OnCycle(a)

Positive(q) == q[1] > 0

Called == last.op \in {"raw", "analyze"}

\* C1: in a registry where A's recipe directly or transitively requires A,
\* every call resolving (A, q), q > 0, by calculate_raw_materials or analyze,
\* first on its engine or not, returns raw materials that contain A.
C1_CycleReturnsItself ==
    (Called /\ Positive(last.quantity) /\ OnCycle(_canon(last.item)))
        => (~last.err /\ _canon(last.item) \in DOMAIN last.raw)

\* C1, first call only: the first call on an engine, and every analyze, does
\* return A among the raw materials.
C1_FirstCallReturnsItself ==
    (Called /\ Positive(last.quantity) /\ OnCycle(_canon(last.item))
       /\ (last.op = "analyze" \/ last.memoBefore = <<>>))
        => (~last.err /\ _canon(last.item) \in DOMAIN last.raw)

\* C2: if the canonical form of the requested item has no entry in the recipe
\* registry, the call raises nothing and returns exactly one raw material,
\* the (canonical) item with the requested quantity, and no steps.
C2_LeafIdentity ==
    (Called /\ _canon(last.item) \notin DOMAIN recipes)
        => /\ ~last.err
           /\ DOMAIN last.raw = {_canon(last.item)}
           /\ last.raw[_canon(last.item)] = last.quantity
           /\ last.steps = <<>>
           /\ (last.op = "analyze"
                 => last.total = <<[item |-> _canon(last.item), count |-> last.quantity]>>)

\* an alias-namespace target unknown to both registries was analysed for 2
C2_Witness ==
    /\ last.op = "analyze"
    /\ last.item = AltCtl
    /\ AltCtl \notin DOMAIN recipes
    /\ Ctl \notin DOMAIN recipes
    /\ last.quantity = RInt(2)
    /\ last.total = <<[item |-> Ctl, count |-> RInt(2)]>>

\* k times a raw-material vector, item by item
Times(counter, k) == [i \in DOMAIN counter |-> RMul(k, counter[i])]

Factors == {RInt(2), RInt(3), <<1, 2>>}

\* C3: in an acyclic registry, for k > 0 and q > 0 the raw materials of
\* (item, k*q) are k times those of (item, q), for analyze and for
\* calculate_raw_materials, on a fresh memo, on the memo the call found and
\* on the memo it left (where the answer is served from the memo).
C3_Linearity ==
    (Called /\ ~last.err /\ Positive(last.quantity) /\ Acyclic)
        => \A k \in Factors :
              LET kq == RMul(k, last.quantity)
              IN  IF last.op = "raw"
                  THEN \A m \in {<<>>, last.memoBefore, memo} :
                          LET r == calculate_raw_materials(Engine, m, last.item, kq, {})
                          IN  ~r.err /\ r.raw = Times(last.raw, k)
                  ELSE LET r == calculate_with_steps(Engine, last.item, kq, {}, <<>>)
                       IN  ~r.err /\ r.raw = Times(last.raw, k)

\* the pickaxe was resolved for 2 from the memo an earlier call left, in an
\* acyclic registry, into two different raw materials
C3_Witness ==
    /\ Acyclic
    /\ last.op = "raw"
    /\ last.item = Pickaxe
    /\ last.quantity = RInt(2)
    /\ Pickaxe \in DOMAIN last.memoBefore
    /\ ~last.err
    /\ Cardinality(DOMAIN last.raw) = 2

AliasNamespaces == {ns \in DOMAIN NS_ALIASES : NS_ALIASES[ns] # ns}

AliasedNames == {"controller", "fluix_block", "silicon"}

\* C4: for every declared alias altns -> canonicalns, name x and quantity q,
\* resolving "altns:x" returns the same raw materials and the same steps (and
\* leaves the same memo) as resolving "canonicalns:x".
C4_AliasTransparency ==
    \A ns \in AliasNamespaces, x \in AliasedNames, q \in Quantities :
        LET alt == Id(ns, x)
            can == Id(NS_ALIASES[ns], x)
        IN  /\ calculate_raw_materials(Engine, memo, alt, q, {})
                 = calculate_raw_materials(Engine, memo, can, q, {})
            /\ calculate_with_steps(Engine, alt, q, {}, <<>>)
                 = calculate_with_steps(Engine, can, q, {}, <<>>)

\* a recipe declared only under the alias namespace was analysed by its alias
\* id, gave steps, and the canonical id gives the same analysis
C4_Witness ==
    /\ AltCtl \in DOMAIN loaded
    /\ Ctl \notin DOMAIN loaded
    /\ last.op = "analyze"
    /\ last.item = AltCtl
    /\ ~last.err
    /\ Len(last.steps) >= 1
    /\ last.steps = analyze(Engine, Ctl, last.quantity).steps
    /\ last.total = analyze(Engine, Ctl, last.quantity).total_raw_materials

\* the object an ingredient entry or key cell offers first
FirstObj(entry) == entry.objs[1]

IsTagRef(obj) == obj.item = NoId /\ obj.tag # ""

\* the tag is declared with at least one member
TagHasMembers(t) == t \in DOMAIN tags /\ tags[t] # <<>>

\* the entry yields an ingredient: an item, or a tag with a member
Yields(entry) ==
    \/ FirstObj(entry).item # NoId
    \/ IsTagRef(FirstObj(entry)) /\ TagHasMembers(FirstObj(entry).tag)

\* C7: an ingredient that references tag T becomes the first declared member
\* of T with the ingredient's count (the declared count in a list, the symbol
\* frequency in a grid); an ingredient whose tag is empty or undeclared adds
\* no ingredient, so the recipe has one ingredient per entry that yields one.
C7_TagResolution ==
    \A k \in DOMAIN recipes :
        LET r == recipes[k]
            ings == _get_ingredients_from_recipe(tags, r)
            chars == PatternChars(r.pattern)
            syms == Range(chars) \cap DOMAIN r.key
        IN  /\ (r.hasPattern /\ r.hasKey) =>
                  /\ Len(ings) = Cardinality({ch \in syms : Yields(r.key[ch])})
                  /\ \A ch \in syms :
                        (IsTagRef(FirstObj(r.key[ch])) /\ TagHasMembers(FirstObj(r.key[ch]).tag))
                            => [item |-> tags[FirstObj(r.key[ch]).tag][1],
                                quantity |-> Occurrences(chars, ch)] \in Range(ings)
            /\ (~(r.hasPattern /\ r.hasKey) /\ r.ingKind = "list") =>
                  /\ Len(ings) = Cardinality({i \in 1..Len(r.ingredients) : Yields(r.ingredients[i])})
                  /\ \A i \in 1..Len(r.ingredients) :
                        (IsTagRef(FirstObj(r.ingredients[i]))
                            /\ TagHasMembers(FirstObj(r.ingredients[i]).tag))
                            => [item |-> tags[FirstObj(r.ingredients[i]).tag][1],
                                quantity |-> FirstObj(r.ingredients[i]).count] \in Range(ings)

\* the controller, whose recipe lists 3 of the planks tag, was analysed with
\* the tag declared as <<oak_planks, birch_planks>>: the step asks for oak_planks
C7_Witness ==
    /\ Ctl \in DOMAIN recipes
    /\ recipes[Ctl] = CtlFromFluix
    /\ tags = [t \in {PlanksTag} |-> <<Planks, Birch>>]
    /\ last.op = "analyze"
    /\ last.item = Ctl
    /\ last.quantity = RInt(1)
    /\ Len(last.steps) = 1
    /\ last.steps[1].ingredients[2] = [item |-> Planks, count |-> RInt(3)]

\* the registry of the end-to-end example: 4 sticks from 2 planks, 4 planks
\* from 1 log, 1 pickaxe from 3 cobblestone and 2 sticks, log and cobblestone raw
ChainRegistry ==
    /\ {Stick, Planks, Pickaxe} \subseteq DOMAIN recipes
    /\ Log \notin DOMAIN recipes
    /\ Cobble \notin DOMAIN recipes
    /\ _output_count(recipes[Stick]) = 4
    /\ _get_ingredients_from_recipe(tags, recipes[Stick]) = <<[item |-> Planks, quantity |-> 2]>>
    /\ _output_count(recipes[Planks]) = 4
    /\ _get_ingredients_from_recipe(tags, recipes[Planks]) = <<[item |-> Log, quantity |-> 1]>>
    /\ _output_count(recipes[Pickaxe]) = 1
    /\ _get_ingredients_from_recipe(tags, recipes[Pickaxe])
         = <<[item |-> Cobble, quantity |-> 3], [item |-> Stick, quantity |-> 2]>>

\* C8: in the example registry, resolving (stick, 2) yields exactly
\* {log: 1/4}, through 1 plank and 1/4 log, and analyze(pickaxe, 1) lists
\* [{cobblestone: 3}, {log: 1/4}], sorted by item id.
C8_EndToEnd ==
    (ChainRegistry /\ Called) =>
        /\ (last.item = Stick /\ last.quantity = RInt(2)) =>
              /\ ~last.err
              /\ DOMAIN last.raw = {Log}
              /\ last.raw[Log] = <<1, 4>>
              /\ last.op = "analyze" =>
                    /\ Len(last.steps) = 2
                    /\ last.steps[1].ingredients = <<[item |-> Planks, count |-> RInt(1)]>>
                    /\ last.steps[2].ingredients = <<[item |-> Log, count |-> <<1, 4>>]>>
        /\ (last.item = Pickaxe /\ last.quantity = RInt(1)) =>
              /\ ~last.err
              /\ DOMAIN last.raw = {Cobble, Log}
              /\ last.raw[Cobble] = RInt(3)
              /\ last.raw[Log] = <<1, 4>>
              /\ last.op = "analyze" =>
                    last.total = <<[item |-> Cobble, count |-> RInt(3)],
                                   [item |-> Log, count |-> <<1, 4>>]>>

\* analyze(pickaxe, 1) returned in the example registry
C8_Witness ==
    /\ ChainRegistry
    /\ last.op = "analyze"
    /\ last.item = Pickaxe
    /\ last.quantity = RInt(1)
    /\ Len(last.total) = 2
    /\ Len(last.steps) = 3

\* the items that appear in the steps of the last analysis, as products or ingredients
StepItemSet ==
    {last.steps[i].item : i \in 1..Len(last.steps)}
    \cup UNION {{ing.item : ing \in Range(last.steps[i].ingredients)} : i \in 1..Len(last.steps)}

\* where an item is first met when the steps are read in order
FirstSeen(it) ==
    LET enc == StepItems(last.steps)
    IN  CHOOSE i \in 1..Len(enc) : enc[i] = it /\ \A j \in 1..(i - 1) : enc[j] # it

\* the number of edges due before the ingredients of step i
RECURSIVE EdgesBefore(_)
EdgesBefore(i) ==
    IF i <= 1 THEN 0 ELSE EdgesBefore(i - 1) + Len(last.steps[i - 1].ingredients)

\* the node a label is declared with
NodeOf(it) == CHOOSE i \in 1..Len(diagram.nodes) : diagram.nodes[i].label = it

\* C9: to_mermaid emits one node per distinct item of the steps, numbered
\* n1, n2, ... in first-encounter order, and one edge ingredient -> product
\* per ingredient of each step, labelled with the formatted quantity of that
\* ingredient in that step; for (stick, 2) in the example registry these are
\* the nodes stick, planks, log and the edges planks -> stick (1) and
\* log -> planks (0.25).
C9_Mermaid ==
    diagram.made =>
        /\ Len(diagram.nodes) = Cardinality(StepItemSet)
        /\ {diagram.nodes[i].label : i \in 1..Len(diagram.nodes)} = StepItemSet
        /\ \A i \in 1..Len(diagram.nodes) : diagram.nodes[i].id = i
        /\ \A i, j \in 1..Len(diagram.nodes) :
              i < j => FirstSeen(diagram.nodes[i].label) < FirstSeen(diagram.nodes[j].label)
        /\ Len(diagram.edges) = EdgesBefore(Len(last.steps) + 1)
        /\ \A i \in 1..Len(last.steps) : \A j \in 1..Len(last.steps[i].ingredients) :
              diagram.edges[EdgesBefore(i) + j]
                 = [from |-> NodeOf(last.steps[i].ingredients[j].item),
                    qty |-> fmt_qty(last.steps[i].ingredients[j].count),
                    to |-> NodeOf(last.steps[i].item)]
        /\ (ChainRegistry /\ last.item = Stick /\ last.quantity = RInt(2)) =>
              /\ diagram.nodes = <<[id |-> 1, label |-> Stick], [id |-> 2, label |-> Planks],
                                   [id |-> 3, label |-> Log]>>
              /\ diagram.edges = <<[from |-> 2, qty |-> RInt(1), to |-> 1],
                                   [from |-> 3, qty |-> <<1, 4>>, to |-> 2]>>

\* the diagram of analyze(stick, 2) in the example registry: 3 nodes, 2 edges
C9_Witness ==
    /\ diagram.made
    /\ ChainRegistry
    /\ last.item = Stick
    /\ last.quantity = RInt(2)
    /\ Len(diagram.nodes) = 3
    /\ Len(diagram.edges) = 2

IsPrefix(a, b) == Len(a) <= Len(b) /\ \A i \in 1..Len(a) : a[i] = b[i]

\* call a comes before call b in a pre-order walk that takes the ingredients
\* in recipe order: a is an ancestor of b, or a lies in an earlier sibling subtree
PreOrderBefore(a, b) ==
    \/ IsPrefix(a, b) /\ Len(a) < Len(b)
    \/ \E i \in 1..Len(a) :
          /\ i <= Len(b)
          /\ \A j \in 1..(i - 1) : a[j] = b[j]
          /\ a[i] < b[i]

\* the recipe of the target yields ingredients
Usable(item_id) ==
    /\ item_id \in DOMAIN recipes
    /\ _get_ingredients_from_recipe(tags, recipes[item_id]) # <<>>

\* C10: in the step list of analyze the step of a call precedes the steps of
\* the calls below it, the subtrees of the ingredients follow in recipe
\* ingredient order, each step records the quantity requested of its item
\* and, per ingredient, perCraftCount * quantity / outputCount, and the first
\* step is the target when the target has a usable recipe.
C10_StepOrder ==
    (last.op = "analyze" /\ ~last.err) =>
        /\ \A i, j \in 1..Len(last.steps) :
              i < j => PreOrderBefore(last.pos[i], last.pos[j])
        /\ \A i \in 1..Len(last.steps) :
              LET st == last.steps[i]
                  ings == _get_ingredients_from_recipe(tags, recipes[st.item])
                  oc == _output_count(recipes[st.item])
              IN  /\ Len(st.ingredients) = Len(ings)
                  /\ \A j \in 1..Len(ings) :
                        st.ingredients[j]
                           = [item |-> _canon(ings[j].item),
                              count |-> RDiv(RMul(RInt(ings[j].quantity), st.count), RInt(oc))]
                  /\ IF last.pos[i] = <<>>
                     THEN st.item = _canon(last.item) /\ st.count = last.quantity
                     ELSE \E p \in 1..(i - 1) :
                             /\ last.pos[p] = SubSeq(last.pos[i], 1, Len(last.pos[i]) - 1)
                             /\ last.steps[p].ingredients[last.pos[i][Len(last.pos[i])]]
                                  = [item |-> st.item, count |-> st.count]
        /\ Usable(_canon(last.item)) =>
              /\ Len(last.steps) >= 1
              /\ last.pos[1] = <<>>
              /\ last.steps[1].item = _canon(last.item)
              /\ last.steps[1].count = last.quantity

\* the pickaxe of planks and sticks was analysed: its step, then the planks
\* subtree, then the stick subtree with its own planks step
C10_Witness ==
    /\ last.op = "analyze"
    /\ ~last.err
    /\ last.item = Pickaxe
    /\ last.pos = << <<>>, <<1>>, <<2>>, <<2, 1>> >>
    /\ last.steps[2].item = Planks
    /\ last.steps[3].item = Stick
    /\ last.steps[4].item = Planks

\* C5: the map load_recipes returns depends only on the declarations of the
\* content root, not on the order in which they are discovered: whatever the
\* order in which the jars are listed, the same map is returned.
C5_OrderIndependent ==
    pc = "loaded" => \A jar_files \in JarOrders : load_recipes(decls, jar_files) = loaded

\* the declarations of the content root the loader recognises (of the script
\* blocks, the ':inscriber' ones), with their provenance rank
Declared ==
    {<<decls.loose[i], 1>> : i \in 1..Len(decls.loose)}
    \cup {<<b, 1>> : b \in Range(InscriberBlocks(decls.scripts))}
    \cup UNION {{<<decls.jars[j][i], 0>> : i \in 1..Len(decls.jars[j])} : j \in DOMAIN decls.jars}

\* those that target the canonical item c
DeclaredFor(c) ==
    {d \in Declared : _extract_result_item(d[1]) # NoId /\ _canon(_extract_result_item(d[1])) = c}

CanonicalOutputs ==
    {_canon(_extract_result_item(d[1])) : d \in {e \in Declared : _extract_result_item(e[1]) # NoId}}

\* C6: when several declarations target the same canonical output item,
\* ids that differ only by an aliased namespace included, the recipe the
\* engine resolves the item with is a declaration of the highest
\* (isParseable, kindPriority, provenanceRank) score among them.
C6_HighestScoreWins ==
    pc = "engine" =>
        \A c \in CanonicalOutputs :
            Cardinality(DeclaredFor(c)) >= 2 =>
                /\ c \in DOMAIN recipes
                /\ \E d \in DeclaredFor(c) :
                      /\ d[1] = recipes[c]
                      /\ \A e \in DeclaredFor(c) :
                            ~ScoreGreater(_score_tuple(e[1], e[2]), _score_tuple(d[1], d[2]))

\* C6 without aliases: when all the declarations for an item name it by the
\* same id, the engine resolves it with one of the highest score.
C6_SameIdHighestScoreWins ==
    pc = "engine" =>
        \A c \in CanonicalOutputs :
            (Cardinality(DeclaredFor(c)) >= 2
               /\ \A d \in DeclaredFor(c) : _extract_result_item(d[1]) = c) =>
                /\ c \in DOMAIN recipes
                /\ \E d \in DeclaredFor(c) :
                      /\ d[1] = recipes[c]
                      /\ \A e \in DeclaredFor(c) :
                            ~ScoreGreater(_score_tuple(e[1], e[2]), _score_tuple(d[1], d[2]))

\* the selected recipe of the canonical target yields no ingredient
NoIngredients(item_id) ==
    /\ item_id \in DOMAIN recipes
    /\ _get_ingredients_from_recipe(tags, recipes[item_id]) = <<>>

\* C11: when the recipe selected for the target yields no extractable
\* ingredients, whatever its declared type, calculate_raw_materials and
\* analyze both raise nothing and return the target itself, with the
\* requested quantity, as the only raw material, with no step.
C11_UnsupportedIsRaw ==
    (Called /\ Positive(last.quantity) /\ NoIngredients(_canon(last.item))
       /\ _output_count(recipes[_canon(last.item)]) # 0)
        => /\ ~last.err
           /\ last.raw = CounterOf(_canon(last.item), last.quantity)
           /\ last.steps = <<>>

\* C11, analyze only: calculate_with_steps does return the target itself.
C11_StepsPathIsRaw ==
    (last.op = "analyze" /\ Positive(last.quantity) /\ NoIngredients(_canon(last.item))
       /\ _output_count(recipes[_canon(last.item)]) # 0)
        => /\ ~last.err
           /\ last.raw = CounterOf(_canon(last.item), last.quantity)
           /\ last.steps = <<>>

\* the content root without the files and archive entries that are not JSON
Cleaned(root) ==
    [loose |-> Parsed(root.loose),
     jars |-> [j \in DOMAIN root.jars |-> Parsed(root.jars[j])],
     scripts |-> root.scripts,
     tagfiles |-> Parsed(root.tagfiles),
     jartags |-> [j \in DOMAIN root.jartags |-> Parsed(root.jartags[j])]]

RecipesLoaded == pc \in {"loaded", "tagged", "engine"}
TagsLoaded == pc \in {"tagged", "engine"}

\* C12: a loose recipe file, a loose tag file or an archive entry that is not
\* JSON is skipped: load_recipes and load_tags never raise, and each returns
\* the registry it builds from the content root with those sources removed.
C12_UnreadableSkipped ==
    /\ pc # "failed"
    /\ RecipesLoaded => \E o \in JarOrders : loaded = load_recipes(Cleaned(decls), o)
    /\ TagsLoaded => \E o \in JarOrders : tags = load_tags(Cleaned(decls), o)

\* C12, archives only: whenever a loader returns, what it returns is the
\* registry of the content root without the unreadable archive entries.
C12_ArchiveEntriesSkipped ==
    /\ RecipesLoaded => \E o \in JarOrders : loaded = load_recipes(Cleaned(decls), o)
    /\ TagsLoaded => \E o \in JarOrders : tags = load_tags(Cleaned(decls), o)

\* an archive with an unreadable recipe entry and one with an unreadable tag
\* entry were both loaded, and the entries after them were taken
C12_ArchiveWitness ==
    /\ TagsLoaded
    /\ \E j \in DOMAIN decls.jars : \E i \in 1..Len(decls.jars[j]) : ~decls.jars[j][i].json
    /\ \E j \in DOMAIN decls.jartags : \E i \in 1..Len(decls.jartags[j]) : ~decls.jartags[j][i].json
    /\ Fluix \in DOMAIN loaded
    /\ PlanksTag \in DOMAIN tags

\* C13: for every target, with or without a recipe, on a cycle or not, and
\* every quantity q >= 0, q = 0 included, calculate_raw_materials and analyze
\* return a result: no call raises.
C13_NeverRaises == Called => ~last.err

\* C13, analyze only: when no recipe of the registry declares an output count
\* of 0, analyze returns a result for every target and every q >= 0.
C13_AnalyzeReturns ==
    (last.op = "analyze" /\ \A k \in DOMAIN recipes : _output_count(recipes[k]) # 0)
        => ~last.err

\* the on-disk tag files of the content root that spell tag id t
DiskFilesFor(t) == {i \in 1..Len(decls.tagfiles) : decls.tagfiles[i].tag = t}

\* the readable archive entries of the content root that spell tag id t
ArchiveEntriesFor(t) ==
    UNION {{<<j, i>> : i \in {n \in 1..Len(decls.jartags[j]) :
                                  decls.jartags[j][n].json /\ decls.jartags[j][n].tag = t}} :
           j \in DOMAIN decls.jartags}

\* the member lists the on-disk files declare for t
DiskListsFor(t) == {ValuesOf(decls.tagfiles[i]) : i \in DiskFilesFor(t)}

\* C14: when a tag id is declared both by an on-disk file and by an archive
\* entry, the loaded member list of the tag is one an on-disk file declares,
\* whichever archives are present and in whatever order they are listed.
C14_DiskBeatsArchive ==
    TagsLoaded =>
        \A t \in DOMAIN tags :
            (DiskFilesFor(t) # {} /\ ArchiveEntriesFor(t) # {}) => tags[t] \in DiskListsFor(t)

\* the planks tag is declared on disk as <<oak, birch>> and by both archives
\* with other lists, and load_tags returned the on-disk list
C14_Witness ==
    /\ TagsLoaded
    /\ decls.tagfiles = <<TagFile(PlanksTag, <<Planks, Birch>>)>>
    /\ \A j \in DOMAIN decls.jartags : <<j, 1>> \in ArchiveEntriesFor(PlanksTag)
    /\ tags[PlanksTag] = <<Planks, Birch>>

\* the archive entries for t of the archive that is listed first among those
\* that declare t, under the listing order o
FirstArchiveFor(t, o) ==
    LET n == CHOOSE n \in DOMAIN o :
                 /\ \E e \in ArchiveEntriesFor(t) : e[1] = o[n]
                 /\ \A k \in 1..(n - 1) : \A e \in ArchiveEntriesFor(t) : e[1] # o[k]
    IN  {e \in ArchiveEntriesFor(t) : e[1] = o[n]}

\* the first readable entry for t in the archives, under the listing order o
FirstArchiveEntryFor(t, o) ==
    CHOOSE e \in FirstArchiveFor(t, o) : \A f \in FirstArchiveFor(t, o) : e[2] <= f[2]

\* C15: when a tag id is declared by several sources of equal provenance, the
\* loaded member list is that of the first one in traversal order: the first
\* on-disk file in sorted path order, or, for a tag no on-disk file declares,
\* the first readable entry of the first archive listed.
C15_FirstSeenWins ==
    TagsLoaded =>
        \A t \in DOMAIN tags :
            /\ Cardinality(DiskFilesFor(t)) >= 2 =>
                  tags[t] = ValuesOf(decls.tagfiles[CHOOSE i \in DiskFilesFor(t) :
                                                       \A k \in DiskFilesFor(t) : i <= k])
            /\ (DiskFilesFor(t) = {} /\ Cardinality(ArchiveEntriesFor(t)) >= 2) =>
                  \E o \in JarOrders :
                      LET e == FirstArchiveEntryFor(t, o)
                      IN  tags[t] = ValuesOf(decls.jartags[e[1]][e[2]])

\* C15, archives only: for a tag that only archives declare, several times,
\* the loaded list is that of the first readable entry in traversal order.
C15_ArchiveFirstSeenWins ==
    TagsLoaded =>
        \A t \in DOMAIN tags :
            (DiskFilesFor(t) = {} /\ Cardinality(ArchiveEntriesFor(t)) >= 2) =>
                \E o \in JarOrders :
                    LET e == FirstArchiveEntryFor(t, o)
                    IN  tags[t] = ValuesOf(decls.jartags[e[1]][e[2]])

\* two archives declare the planks tag, one of them twice, no on-disk file
\* does, and load_tags returned a list
C15_ArchiveWitness ==
    /\ TagsLoaded
    /\ decls.tagfiles = <<>>
    /\ Cardinality(ArchiveEntriesFor(PlanksTag)) = 3
    /\ PlanksTag \in DOMAIN tags

\* the anchor items and the synthetic recipe load_recipes holds for each
Anchors == {Stick, Planks, DiamondPickaxe, Ctl}

FallbackOf(a) ==
    CASE a = Stick -> FallbackStick
      [] a = Planks -> FallbackPlanks
      [] a = DiamondPickaxe -> FallbackDiamondPickaxe
      [] OTHER -> FallbackController

\* the recipe dicts discovered for the canonical item a
DiscoveredFor(a) == {d[1] : d \in DeclaredFor(a)}

\* the engine extracts at least one ingredient from the declaration
UsableDeclaration(d) == _get_ingredients_from_recipe(tags, d) # <<>>

\* C16: the registry holds the synthetic fallback of an anchor item only when
\* no usable declaration was discovered for it: if some discovered
\* declaration of the anchor is usable, the engine's record for the anchor is
\* a discovered declaration, and if none is (or none was discovered), it is
\* the fallback.
C16_FallbackIffUnusable ==
    pc = "engine" =>
        \A a \in Anchors :
            /\ a \in DOMAIN recipes
            /\ IF \E d \in DiscoveredFor(a) : UsableDeclaration(d)
               THEN recipes[a] \in DiscoveredFor(a)
               ELSE recipes[a] = FallbackOf(a)

\* C16, nothing discovered: an anchor item for which no declaration at all
\* was discovered gets its fallback.
C16_FallbackWhenUndeclared ==
    pc = "engine" =>
        \A a \in Anchors : DiscoveredFor(a) = {} => (a \in DOMAIN recipes /\ recipes[a] = FallbackOf(a))

\* the synthetic recipes that were injected: the anchor's record is the
\* fallback and no discovered declaration reads the same
Injected(a) == a \in DOMAIN loaded /\ loaded[a] = FallbackOf(a) /\ FallbackOf(a) \notin DiscoveredFor(a)

\* C17: every injected fallback carries the synthetic marker and no
\* discovered recipe of the registry carries it.
C17_FallbacksMarked ==
    RecipesLoaded =>
        /\ \A a \in Anchors : Injected(a) => loaded[a].placeholder
        /\ \A k \in DOMAIN loaded :
              (\E d \in Declared : d[1] = loaded[k]) => ~loaded[k].placeholder

\* C17, controller only: the injected ae2:controller fallback carries the marker.
C17_ControllerFallbackMarked ==
    RecipesLoaded => (Injected(Ctl) => loaded[Ctl].placeholder)

IsCanonical(id) == Len(id) >= 2 => id[1] \notin AliasNamespaces

\* the ids of the body of the last analysis: raw materials, step products
\* and step ingredients
ResponseBodyIds ==
    {last.total[i].item : i \in 1..Len(last.total)} \cup StepItemSet

\* C19: every item id of the response of analyze is canonical: the target
\* field, the raw materials, the product and the ingredients of every step.
C19_ResponseCanonical ==
    (last.op = "analyze" /\ ~last.err) =>
        /\ IsCanonical(last.item)
        /\ \A id \in ResponseBodyIds : IsCanonical(id)

\* C19, without the target field: the raw materials and the steps of the
\* response carry canonical ids only.
C19_BodyCanonical ==
    (last.op = "analyze" /\ ~last.err) => \A id \in ResponseBodyIds : IsCanonical(id)

\* C20: after any sequence of calculate_raw_materials calls on one engine,
\* over a cyclic registry or not, every memo entry memo[i] is the per-unit
\* vector of i: for every q > 0, memo[i] scaled by q is what resolving
\* (i, q) on an empty memo returns.
C20_MemoIsPerUnit ==
    \A i \in DOMAIN memo : \A q \in {x \in Quantities : Positive(x)} :
        LET r == calculate_raw_materials(Engine, <<>>, i, q, {})
        IN  ~r.err /\ r.raw = _scale_counter(memo[i], q)

\* C20, acyclic registries: there every memo entry is the per-unit vector.
C20_AcyclicMemoIsPerUnit ==
    Acyclic =>
        \A i \in DOMAIN memo : \A q \in {x \in Quantities : Positive(x)} :
            LET r == calculate_raw_materials(Engine, <<>>, i, q, {})
            IN  ~r.err /\ r.raw = _scale_counter(memo[i], q)


-----------------------------------------------------------------------------
(* C21: memo entries are written once *)

\* the calls of a call tree in the order they were entered
RECURSIVE CallNodes(_)
RECURSIVE CallNodesOf(_)
CallNodesOf(calls) ==
    IF calls = <<>> THEN <<>> ELSE CallNodes(Head(calls)) \o CallNodesOf(Tail(calls))
CallNodes(call) == <<call>> \o CallNodesOf(call.sub)

IsStore(call) == call.how = "stored"

\* the items whose memo entry the last call wrote, one element per write
StoredBy(call) ==
    LET writes == SelectSeq(CallNodes(call), IsStore)
    IN  [i \in 1..Len(writes) |-> writes[i].item]

\* C21: every memo entry that existed before a call of calculate_raw_materials
\* is still there with the same value after it, the call writes no key that
\* was already present, it writes no key twice, and the memo afterwards holds
\* exactly the old keys and the written ones; analyze writes nothing.  Since
\* every earlier write of the engine is in the memo the call starts from, no
\* entry is ever written a second time or changed.
C21_MemoWrittenOnce ==
    /\ last.op = "raw" =>
         LET stored == StoredBy(last.call)
         IN  /\ \A k \in DOMAIN last.memoBefore :
                   k \in DOMAIN memo /\ memo[k] = last.memoBefore[k]
             /\ \A i \in DOMAIN stored : stored[i] \notin DOMAIN last.memoBefore
             /\ \A i, j \in DOMAIN stored : stored[i] = stored[j] => i = j
             /\ DOMAIN memo = DOMAIN last.memoBefore \cup Range(stored)
             /\ \A n \in Range(CallNodes(last.call)) :
                   n.how = "memo" => n.item \in n.memo
    /\ last.op = "analyze" => memo = last.memoBefore

\* a call that starts from a non-empty memo, is answered from it for one
\* sub-item and stores two new entries
C21_Witness ==
    /\ last.op = "raw"
    /\ last.memoBefore # <<>>
    /\ Len(StoredBy(last.call)) >= 2
    /\ \E n \in Range(CallNodes(last.call)) : n.how = "memo"


-----------------------------------------------------------------------------
(* C22: nested tag references *)

\* an id that is a tag reference: its text starts with '#'
IsTagReference(id) == id # <<>> /\ Head(id) = "#minecraft"

\* the ids a returned result names: raw materials, step products and step
\* ingredients
ResultIds ==
    DOMAIN last.raw
      \cup {last.steps[i].item : i \in DOMAIN last.steps}
      \cup UNION {{last.steps[i].ingredients[j].item :
                     j \in DOMAIN last.steps[i].ingredients} : i \in DOMAIN last.steps}

\* C22: a tag member that is itself a tag reference never becomes an
\* ingredient id, a step ingredient or a raw material: no recipe of the
\* registry yields such an ingredient, no call is made for one, and no
\* returned result names one.
C22_NestedTagsOpaque ==
    (Called /\ ~last.err) =>
        /\ \A n \in Range(CallNodes(last.call)) : ~IsTagReference(n.item)
        /\ \A id \in ResultIds : ~IsTagReference(id)
        /\ \A k \in DOMAIN recipes :
             \A ing \in Range(_get_ingredients_from_recipe(tags, recipes[k])) :
                ~IsTagReference(ing.item)

\* What does hold: the reference is never expanded.  Every call made for a
\* tag reference ends as a leaf, returning the reference itself as the raw
\* material.
C22_ReferenceNeverExpanded ==
    (Called /\ ~last.err) =>
        \A n \in Range(CallNodes(last.call)) :
            IsTagReference(n.item) =>
                /\ n.sub = <<>>
                /\ n.how \in {"leaf", "memo"} => n.raw = CounterOf(n.item, n.quantity)
                /\ n.how \in {"leaf", "memo"}

C22_ReferenceWitness ==
    /\ Called /\ ~last.err
    /\ \E n \in Range(CallNodes(last.call)) : IsTagReference(n.item)


-----------------------------------------------------------------------------
(* C23: output normalisation *)

CountOf(out) == IF out.kind = "dict" /\ out.hasCount THEN out.count ELSE 1

\* the count declared by the output shape load_recipes._extract_result_item
\* takes the output item from: 'result', else 'output', else the first
\* element of 'results'
DeclaredCount(data) ==
    IF data.result.kind # "absent" THEN CountOf(data.result)
    ELSE IF data.output.kind # "absent" THEN CountOf(data.output)
    ELSE IF data.results # <<>> THEN CountOf(data.results[1])
    ELSE 1

\* C23: for every recipe of the engine's registry the count the engine divides
\* by is positive and is the count declared by the output shape that gave the
\* loader the recipe's output item.
C23_OutputNormalised ==
    pc = "engine" =>
        \A k \in DOMAIN recipes :
            /\ _output_count(recipes[k]) > 0
            /\ _output_count(recipes[k]) = DeclaredCount(recipes[k])

\* What does hold: a recipe whose output is declared under 'result' or
\* 'output' is divided by the count declared there.
C23_ResultAndOutputShapes ==
    pc = "engine" =>
        \A k \in DOMAIN recipes :
            (recipes[k].result.kind # "absent" \/ recipes[k].output.kind # "absent")
                => _output_count(recipes[k]) = DeclaredCount(recipes[k])

C23_ShapesWitness ==
    /\ pc = "engine"
    /\ \E k \in DOMAIN recipes : recipes[k].result.kind = "dict" /\ recipes[k].result.count > 1


-----------------------------------------------------------------------------
(* C24: path isolation *)

\* the items of the calls of a call tree
ItemsOf(call) == {n.item : n \in Range(CallNodes(call))}

\* call and every call below it received exactly the items of its ancestors
\* as visited, and was cut as a cycle only for an item among them
RECURSIVE Isolated(_, _)
Isolated(call, ancestors) ==
    /\ call.visited = ancestors
    /\ call.how = "cycle" => call.item \in ancestors
    /\ \A i \in DOMAIN call.sub : Isolated(call.sub[i], ancestors \cup {call.item})

\* C24: in every call tree of calculate_raw_materials and of
\* calculate_with_steps, each call's visited set is exactly the set of the
\* items of its ancestors, a call is cut as a cycle only when its item is one
\* of them, and in an acyclic registry no call is cut as a cycle.
C24_PathIsolation ==
    (Called /\ ~last.err) =>
        /\ Isolated(last.call, {})
        /\ Acyclic => \A n \in Range(CallNodes(last.call)) : n.how # "cycle"

\* an analysis in which two sibling ingredient branches of one step both
\* reach the same item, the earlier branch through a recipe
C24_Witness ==
    /\ last.op = "analyze" /\ ~last.err
    /\ \E n \in Range(CallNodes(last.call)) :
         \E i, j \in DOMAIN n.sub :
            /\ i < j
            /\ n.sub[i].how = "step"
            /\ n.sub[j].item \in ItemsOf(n.sub[i]) \ {n.sub[i].item}
            /\ n.sub[j].how # "cycle"


-----------------------------------------------------------------------------
(* C25: accumulation over shared sub-recipes *)

\* The demand for raw items computed branch by branch, with no memo and no
\* visited set: an item without a recipe that yields ingredients is its own
\* demand; otherwise every ingredient of its recipe contributes the demand of
\* perCraftCount * quantity / outputCount of that ingredient, and the
\* contributions are summed.  Defined on acyclic registries.
RECURSIVE BranchDemand(_, _)
RECURSIVE BranchDemandOver(_, _)
BranchDemandOver(ings, mult) ==
    IF ings = <<>> THEN EmptyCounter
    ELSE CounterUpdate(BranchDemand(_canon(Head(ings).item),
                                    RMul(RInt(Head(ings).quantity), mult)),
                       BranchDemandOver(Tail(ings), mult))
BranchDemand(item_id, q) ==
    IF ~Usable(item_id) THEN CounterOf(item_id, q)
    ELSE BranchDemandOver(_get_ingredients_from_recipe(tags, recipes[item_id]),
                          RDiv(q, RInt(_output_count(recipes[item_id]))))

\* C25: in an acyclic registry the raw totals a call returns are the sum
\* over all ingredient branches of the per-branch demand, for
\* calculate_raw_materials (recomputing or answering from the memo) and for
\* analyze.
C25_SharedAccumulation ==
    (Called /\ ~last.err /\ Acyclic) =>
        last.raw = BranchDemand(_canon(last.item), last.quantity)

\* every recipe of the registry yields ingredients or has a type other than
\* the two crafting types
NoEmptyCrafting ==
    \A k \in DOMAIN recipes :
        NoIngredients(k) => TypeOrEmpty(recipes[k]) \notin SupportedCrafting

\* What does hold: the totals are the branch sums when no crafting recipe of
\* the registry is without ingredients.
C25_AccumulationOfYieldingRecipes ==
    (Called /\ ~last.err /\ Acyclic /\ NoEmptyCrafting) =>
        last.raw = BranchDemand(_canon(last.item), last.quantity)

\* a call of calculate_raw_materials in such a registry that reaches one item
\* through two sibling branches and is answered from the memo for it once
C25_SharedWitness ==
    /\ last.op = "raw" /\ ~last.err /\ Acyclic /\ NoEmptyCrafting
    /\ \E n \in Range(CallNodes(last.call)) :
         \E i, j \in DOMAIN n.sub :
            /\ i < j
            /\ n.sub[j].item \in ItemsOf(n.sub[i]) \ {n.sub[i].item}
            /\ n.sub[j].how = "memo"
            /\ Usable(n.sub[j].item)


-----------------------------------------------------------------------------
(* C26: grid-shaped extraction *)

\* the cells of the pattern that hold symbol ch
CellsHolding(pattern, ch) ==
    {rc \in UNION {{<<r, c>> : c \in DOMAIN pattern[r]} : r \in DOMAIN pattern} :
        pattern[rc[1]][rc[2]] = ch}

\* the item a key symbol stands for: the cell itself or the first candidate
\* of a list-valued cell, NoId when the symbol is not in the key, the list is
\* empty or the candidate names no item
ResolvedItem(tagmap, key, ch) ==
    IF ch \notin DOMAIN key THEN NoId
    ELSE IF key[ch].kind = "list" /\ key[ch].objs = <<>> THEN NoId
    ELSE _pick_item(tagmap, key[ch].objs[1])

\* the symbols of the pattern that resolve to an item
ResolvableSymbols(tagmap, recipe) ==
    {ch \in {"X", "Y", "Z"} :
        /\ CellsHolding(recipe.pattern, ch) # {}
        /\ ResolvedItem(tagmap, recipe.key, ch) # NoId}

RECURSIVE SumQuantities(_)
SumQuantities(ings) ==
    IF ings = <<>> THEN 0 ELSE Head(ings).quantity + SumQuantities(Tail(ings))

\* C26: the list returned for a recipe with 'pattern' and 'key' has exactly
\* one ingredient per pattern symbol that resolves to an item, naming the
\* item of the key cell (the first candidate of a list) with the number of
\* cells holding the symbol as its count; so the counts sum to the number of
\* cells holding a resolvable symbol.
C26_GridExtraction ==
    (pc = "grid" /\ probe.out # <<>>) =>
        LET ings == probe.out[1]
            syms == ResolvableSymbols(tags, probe.arg)
        IN  /\ Len(ings) = Cardinality(syms)
            /\ \E f \in [DOMAIN ings -> syms] :
                  /\ \A i, j \in DOMAIN ings : f[i] = f[j] => i = j
                  /\ \A i \in DOMAIN ings :
                        /\ ings[i].item = ResolvedItem(tags, probe.arg.key, f[i])
                        /\ ings[i].quantity
                             = Cardinality(CellsHolding(probe.arg.pattern, f[i]))
            /\ SumQuantities(ings)
                 = Cardinality(UNION {CellsHolding(probe.arg.pattern, ch) : ch \in syms})

\* extraction from a two-row pattern with a space, in which "X" occurs in
\* both rows and is a list-valued key cell, and "Y" occurs but is not in the key
C26_Witness ==
    /\ pc = "grid" /\ probe.out # <<>>
    /\ Len(probe.arg.pattern) = 2
    /\ \A r \in 1..2 : \E rc \in CellsHolding(probe.arg.pattern, "X") : rc[1] = r
    /\ CellsHolding(probe.arg.pattern, " ") # {}
    /\ CellsHolding(probe.arg.pattern, "Y") # {}
    /\ DOMAIN probe.arg.key = {"X", "Z"}
    /\ probe.arg.key["X"].kind = "list"
    /\ probe.out[1] = <<[item |-> Stick, quantity |-> 2]>>


-----------------------------------------------------------------------------
(* C27: the two resolution paths *)

\* what calculate_raw_materials returns for the last request on an engine
\* constructed for it (the worker task's path)
FreshRaw == calculate_raw_materials(Engine, <<>>, last.item, last.quantity, {})

\* C27: for every request with a positive quantity, calculate_raw_materials
\* on a freshly constructed engine raises exactly when analyze does, and
\* otherwise returns the raw totals analyze returns.
C27_PathsAgree ==
    (last.op = "analyze" /\ Positive(last.quantity)) =>
        /\ FreshRaw.err = last.err
        /\ ~last.err => FreshRaw.raw = last.raw

\* What does hold: the two paths agree on acyclic registries in which no
\* crafting recipe is without ingredients.
C27_PathsAgreeOnAcyclicYielding ==
    (last.op = "analyze" /\ Positive(last.quantity) /\ Acyclic /\ NoEmptyCrafting) =>
        /\ FreshRaw.err = last.err
        /\ ~last.err => FreshRaw.raw = last.raw

C27_AcyclicYieldingWitness ==
    /\ last.op = "analyze" /\ Positive(last.quantity) /\ ~last.err
    /\ Acyclic /\ NoEmptyCrafting
    /\ Len(last.steps) >= 3
    /\ \E n \in Range(CallNodes(FreshRaw.call)) : n.how = "memo"


-----------------------------------------------------------------------------
(* C28: the descent path and the memo *)

\* C28: at every call of calculate_raw_materials, in any sequence of calls on
\* one engine, no item of the visited set it received has a memo entry, and a
\* call whose id is in the visited set is cut by the cycle guard and returns
\* the id itself with the quantity asked; so testing the memo before the
\* visited set, as the code does, never answers a call the cycle guard would
\* have answered.
C28_PathAndMemoDisjoint ==
    last.op = "raw" =>
        \A n \in Range(CallNodes(last.call)) :
            /\ n.visited \cap n.memo = {}
            /\ n.item \in n.visited =>
                  /\ n.how = "cycle"
                  /\ n.raw = CounterOf(n.item, n.quantity)
            /\ n.how = "memo" => n.item \notin n.visited

\* a second call on an engine whose memo is not empty, in which one nested
\* call is answered from the memo and another is cut by the cycle guard while
\* the memo holds entries
C28_Witness ==
    /\ last.op = "raw" /\ ~last.err
    /\ last.memoBefore # <<>>
    /\ \E n \in Range(CallNodes(last.call)) : n.how = "memo" /\ n.visited # {}
    /\ \E n \in Range(CallNodes(last.call)) : n.how = "cycle" /\ n.memo # {}

====
